---- MODULE Spec2Model ----
(***************************************************************************)
(* Model of the runtime geometry kernels of safe-math-ts                   *)
(* (src/src/geometry3d/quaternion.ts and src/src/geometry3d/matrix4.ts).   *)
(*                                                                         *)
(* Numbers.  A JavaScript number is modelled as a pair <<n, d>>:           *)
(*   d > 0   the rational n/d in lowest terms,                             *)
(*   <<0,0>> NaN,  <<1,0>> +Infinity,  <<-1,0>> -Infinity.                 *)
(* Arithmetic on these pairs is exact; IEEE rounding is not modelled, so   *)
(* every numeric statement checked here is a statement about inputs on     *)
(* which the double-precision computation is exact as well (small integers *)
(* and small rationals).  The sign of zero is not modelled.                *)
(*                                                                         *)
(* Objects.  A matrix returned by the TRS cache is an index into heap, so  *)
(* that object identity (===, Object.is) is equality of indices.           *)
(***************************************************************************)
EXTENDS Integers, Sequences, FiniteSets, TLC

VARIABLES
    hasCached, cached, tx, ty, tz, qx, qy, qz, qw, sx, sy, sz, \* closure state of one TRS cache
    heap,      \* the matrix objects allocated so far, by identity
    calls,     \* history: the calls made on the cache, each with its outcome
    call,      \* the last call of a pure kernel function: [op, in, out]
    second     \* closure state and call history of a second TRS cache, once it is made

cacheVars ==
    <<hasCached, cached, tx, ty, tz, qx, qy, qz, qw, sx, sy, sz, heap, calls, second>>
vars ==
    <<hasCached, cached, tx, ty, tz, qx, qy, qz, qw, sx, sy, sz, heap, calls, call, second>>

-----------------------------------------------------------------------------
(* Bounds of the model *)

\* calls made on one TRS cache
MaxCalls == 3
\* point and vector coordinates range over -1 .. MaxCoord
MaxCoord == 1

-----------------------------------------------------------------------------
(* JavaScript numbers *)

AbsInt(n) == IF n < 0 THEN -n ELSE n

SignInt(n) == IF n < 0 THEN -1 ELSE IF n > 0 THEN 1 ELSE 0

RECURSIVE GCD(_, _)
GCD(a, b) == IF b = 0 THEN a ELSE GCD(b, a % b)

\* the number n/d; d = 0 gives NaN or a signed infinity
Rat(n, d) ==
    IF d = 0 THEN <<SignInt(n), 0>>
    ELSE LET s == IF d < 0 THEN -1 ELSE 1
             g == GCD(AbsInt(n), AbsInt(d))
         IN <<(s * n) \div g, (s * d) \div g>>

Num(k) == <<k, 1>>
Zero == <<0, 1>>
One == <<1, 1>>
Two == <<2, 1>>
NaN == <<0, 0>>
PosInf == <<1, 0>>
NegInf == <<-1, 0>>

IsNaN(a) == a = NaN
\* Number.isFinite
IsFinite(a) == a[2] /= 0

Neg(a) == <<-a[1], a[2]>>

Add(a, b) ==
    IF IsFinite(a) /\ IsFinite(b) THEN Rat(a[1] * b[2] + b[1] * a[2], a[2] * b[2])
    ELSE IF IsNaN(a) \/ IsNaN(b) THEN NaN
    ELSE IF IsFinite(a) THEN b
    ELSE IF IsFinite(b) THEN a
    ELSE IF a = b THEN a ELSE NaN

Sub(a, b) == Add(a, Neg(b))

\* 0 * Infinity and NaN * x come out as <<0,0>>
Mul(a, b) == Rat(a[1] * b[1], a[2] * b[2])

Recip(a) ==
    IF a[1] > 0 THEN <<a[2], a[1]>>
    ELSE IF a[1] < 0 THEN <<-a[2], -a[1]>>
    ELSE IF a[2] = 0 THEN NaN ELSE PosInf

Div(a, b) == Mul(a, Recip(b))

AbsNum(a) == <<AbsInt(a[1]), a[2]>>

\* a < b; false when either is NaN
Lt(a, b) ==
    IF ~IsFinite(a) /\ ~IsFinite(b) THEN ~IsNaN(a) /\ ~IsNaN(b) /\ a[1] < b[1]
    ELSE a[1] * b[2] < b[1] * a[2]

\* a === b
StrictEq(a, b) == ~IsNaN(a) /\ ~IsNaN(b) /\ a = b

Leq(a, b) == Lt(a, b) \/ StrictEq(a, b)

Gt(a, b) == Lt(b, a)

RECURSIVE DivPow10(_, _)
DivPow10(n, k) == IF k = 0 THEN n ELSE DivPow10(n \div 10, k - 1)

\* a <= 10^-k, for the tolerances 1e-14, 1e-10 and 1e-8: n/d <= 10^-k iff n <= d div 10^k
LeqPow10(a, k) ==
    IF ~IsFinite(a) THEN a = NegInf
    ELSE a[1] <= DivPow10(a[2], k)

RECURSIVE ISqrtIn(_, _, _)
ISqrtIn(n, lo, hi) ==
    IF lo >= hi THEN lo
    ELSE LET mid == (lo + hi + 1) \div 2
         IN IF mid * mid <= n THEN ISqrtIn(n, mid, hi) ELSE ISqrtIn(n, lo, mid - 1)

ISqrt(n) == ISqrtIn(n, 0, IF n < 46340 THEN n ELSE 46340)

\* Math.sqrt: exact on the square of a rational, rounded down to a multiple of 1/d otherwise
Sqrt(a) ==
    IF IsNaN(a) \/ a[1] < 0 THEN NaN
    ELSE IF a = PosInf THEN PosInf
    ELSE Rat(ISqrt(a[1] * a[2]), a[2])

-----------------------------------------------------------------------------
(* Values and errors *)

\* matrix[i], rotation[i], point[i] of the source (0-based)
E(seq, i) == seq[i + 1]

\* a thrown Error, as the value of the call that threw it
Throw(message) == [error |-> message]

Threw(result) == DOMAIN result = {"error"}

Add3(a, b, c) == Add(Add(a, b), c)
Add4(a, b, c, d) == Add(Add(Add(a, b), c), d)

-----------------------------------------------------------------------------
(* quaternion.ts *)

\* NEAR_ZERO = 1e-14, held as its decimal exponent
NEAR_ZERO_EXP == 14
\* ROTATION_MATRIX_TOLERANCE = 1e-8, held as its decimal exponent
ROTATION_MATRIX_TOLERANCE_EXP == 8

DistinctFramesMessage == "toFrameTag and fromFrameTag must be different"

assertDistinctFramesSkipped(toFrame, fromFrame) == FALSE

\* TRUE when assertDistinctFrames throws
assertDistinctFrames(toFrame, fromFrame) == toFrame = fromFrame

asQuaternion(x, y, z, w) == <<x, y, z, w>>

quat(toFrameTag, fromFrameTag, x, y, z, w) ==
    IF assertDistinctFrames(toFrameTag, fromFrameTag) THEN Throw(DistinctFramesMessage)
    ELSE asQuaternion(x, y, z, w)

quatNormSquared(value) ==
    Add4(Mul(E(value, 0), E(value, 0)),
         Mul(E(value, 1), E(value, 1)),
         Mul(E(value, 2), E(value, 2)),
         Mul(E(value, 3), E(value, 3)))

quatNorm(value) == Sqrt(quatNormSquared(value))

quatNormalizeUnsafe(value) ==
    LET scaled(norm) ==
            asQuaternion(Div(E(value, 0), norm), Div(E(value, 1), norm),
                         Div(E(value, 2), norm), Div(E(value, 3), norm))
    IN scaled(quatNorm(value))

\* the guard of quatNormalize without the division by the norm
quatNormalizeGuardOnly(value) ==
    IF LeqPow10(quatNorm(value), NEAR_ZERO_EXP)
    THEN Throw("Cannot normalize a zero-length quaternion")
    ELSE value

\* TRUE when quatNormalize throws
quatNormalizeThrows(value) == LeqPow10(quatNorm(value), NEAR_ZERO_EXP)

quatNormalize(value) ==
    IF quatNormalizeThrows(value) THEN Throw("Cannot normalize a zero-length quaternion")
    ELSE quatNormalizeUnsafe(value)

composeQuatsSwapped(outer, inner) ==
    LET x1 == E(outer, 0)  y1 == E(outer, 1)  z1 == E(outer, 2)  w1 == E(outer, 3)
        x2 == E(inner, 0)  y2 == E(inner, 1)  z2 == E(inner, 2)  w2 == E(inner, 3)
    IN asQuaternion(
         Sub(Add3(Mul(w2, x1), Mul(x2, w1), Mul(y2, z1)), Mul(z2, y1)),
         Add3(Sub(Mul(w2, y1), Mul(x2, z1)), Mul(y2, w1), Mul(z2, x1)),
         Add(Sub(Add(Mul(w2, z1), Mul(x2, y1)), Mul(y2, x1)), Mul(z2, w1)),
         Sub(Sub(Sub(Mul(w2, w1), Mul(x2, x1)), Mul(y2, y1)), Mul(z2, z1)))

composeQuats(outer, inner) ==
    LET x1 == E(inner, 0)  y1 == E(inner, 1)  z1 == E(inner, 2)  w1 == E(inner, 3)
        x2 == E(outer, 0)  y2 == E(outer, 1)  z2 == E(outer, 2)  w2 == E(outer, 3)
    IN asQuaternion(
         Sub(Add3(Mul(w2, x1), Mul(x2, w1), Mul(y2, z1)), Mul(z2, y1)),
         Add3(Sub(Mul(w2, y1), Mul(x2, z1)), Mul(y2, w1), Mul(z2, x1)),
         Add(Sub(Add(Mul(w2, z1), Mul(x2, y1)), Mul(y2, x1)), Mul(z2, w1)),
         Sub(Sub(Sub(Mul(w2, w1), Mul(x2, x1)), Mul(y2, y1)), Mul(z2, z1)))

rotateVec3ByQuatUnsafe(rotation, value) ==
    LET rotated(q) ==
            LET q_x == E(q, 0)  q_y == E(q, 1)  q_z == E(q, 2)  q_w == E(q, 3)
                vx == E(value, 0)  vy == E(value, 1)  vz == E(value, 2)
                t_x == Mul(Two, Sub(Mul(q_y, vz), Mul(q_z, vy)))
                t_y == Mul(Two, Sub(Mul(q_z, vx), Mul(q_x, vz)))
                t_z == Mul(Two, Sub(Mul(q_x, vy), Mul(q_y, vx)))
                rotatedX == Add3(vx, Mul(q_w, t_x), Sub(Mul(q_y, t_z), Mul(q_z, t_y)))
                rotatedY == Add3(vy, Mul(q_w, t_y), Sub(Mul(q_z, t_x), Mul(q_x, t_z)))
                rotatedZ == Add3(vz, Mul(q_w, t_z), Sub(Mul(q_x, t_y), Mul(q_y, t_x)))
            IN <<rotatedX, rotatedY, rotatedZ>>
    IN rotated(quatNormalizeUnsafe(rotation))

rotateVec3ByQuat(rotation, value) ==
    IF quatNormalizeThrows(rotation) THEN quatNormalize(rotation)
    ELSE rotateVec3ByQuatUnsafe(rotation, value)

isNear(a, b, toleranceExp) == LeqPow10(AbsNum(Sub(a, b)), toleranceExp)

dot3(ax, ay, az, bx, by, bz) == Add3(Mul(ax, bx), Mul(ay, by), Mul(az, bz))

lengthSquared3(x, y, z) == dot3(x, y, z, x, y, z)

det3(m00, m01, m02, m10, m11, m12, m20, m21, m22) ==
    Add(Sub(Mul(m00, Sub(Mul(m11, m22), Mul(m12, m21))),
            Mul(m01, Sub(Mul(m10, m22), Mul(m12, m20)))),
        Mul(m02, Sub(Mul(m10, m21), Mul(m11, m20))))

assertValidRotationBasisAnyHandedness(m00, m01, m02, m10, m11, m12, m20, m21, m22) ==
    LET entries == <<m00, m01, m02, m10, m11, m12, m20, m21, m22>>
    IN IF \E i \in 1..9 : ~IsFinite(entries[i])
       THEN "Rotation matrix contains non-finite values"
       ELSE IF \/ ~isNear(lengthSquared3(m00, m10, m20), One, ROTATION_MATRIX_TOLERANCE_EXP)
               \/ ~isNear(lengthSquared3(m01, m11, m21), One, ROTATION_MATRIX_TOLERANCE_EXP)
               \/ ~isNear(lengthSquared3(m02, m12, m22), One, ROTATION_MATRIX_TOLERANCE_EXP)
               \/ ~LeqPow10(AbsNum(dot3(m00, m10, m20, m01, m11, m21)),
                            ROTATION_MATRIX_TOLERANCE_EXP)
               \/ ~LeqPow10(AbsNum(dot3(m00, m10, m20, m02, m12, m22)),
                            ROTATION_MATRIX_TOLERANCE_EXP)
               \/ ~LeqPow10(AbsNum(dot3(m01, m11, m21, m02, m12, m22)),
                            ROTATION_MATRIX_TOLERANCE_EXP)
       THEN "Input matrix is not a valid rotation matrix"
       ELSE ""

\* the Error assertValidRotationBasis throws, or "" when it returns
assertValidRotationBasis(m00, m01, m02, m10, m11, m12, m20, m21, m22) ==
    LET entries == <<m00, m01, m02, m10, m11, m12, m20, m21, m22>>
        col0LengthSquared == lengthSquared3(m00, m10, m20)
        col1LengthSquared == lengthSquared3(m01, m11, m21)
        col2LengthSquared == lengthSquared3(m02, m12, m22)
        col01Dot == dot3(m00, m10, m20, m01, m11, m21)
        col02Dot == dot3(m00, m10, m20, m02, m12, m22)
        col12Dot == dot3(m01, m11, m21, m02, m12, m22)
        determinant == det3(m00, m01, m02, m10, m11, m12, m20, m21, m22)
    IN IF \E i \in 1..9 : ~IsFinite(entries[i])
       THEN "Rotation matrix contains non-finite values"
       ELSE IF \/ ~isNear(col0LengthSquared, One, ROTATION_MATRIX_TOLERANCE_EXP)
               \/ ~isNear(col1LengthSquared, One, ROTATION_MATRIX_TOLERANCE_EXP)
               \/ ~isNear(col2LengthSquared, One, ROTATION_MATRIX_TOLERANCE_EXP)
               \/ ~LeqPow10(AbsNum(col01Dot), ROTATION_MATRIX_TOLERANCE_EXP)
               \/ ~LeqPow10(AbsNum(col02Dot), ROTATION_MATRIX_TOLERANCE_EXP)
               \/ ~LeqPow10(AbsNum(col12Dot), ROTATION_MATRIX_TOLERANCE_EXP)
               \/ ~isNear(determinant, One, ROTATION_MATRIX_TOLERANCE_EXP)
       THEN "Input matrix is not a valid rotation matrix"
       ELSE ""

quatFromRotationMatrixUnsafe(toFrameTag, fromFrameTag, matrix) ==
    LET m00 == E(matrix, 0)  m10 == E(matrix, 1)  m20 == E(matrix, 2)
        m01 == E(matrix, 4)  m11 == E(matrix, 5)  m21 == E(matrix, 6)
        m02 == E(matrix, 8)  m12 == E(matrix, 9)  m22 == E(matrix, 10)
        trace == Add3(m00, m11, m22)
        quarter == Rat(1, 4)
        xyzw ==
          IF Gt(trace, Zero) THEN
            LET s == Mul(Sqrt(Add(trace, One)), Two)
            IN <<Div(Sub(m21, m12), s), Div(Sub(m02, m20), s), Div(Sub(m10, m01), s),
                 Mul(quarter, s)>>
          ELSE IF Gt(m00, m11) /\ Gt(m00, m22) THEN
            LET s == Mul(Sqrt(Sub(Sub(Add(One, m00), m11), m22)), Two)
            IN <<Mul(quarter, s), Div(Add(m01, m10), s), Div(Add(m02, m20), s),
                 Div(Sub(m21, m12), s)>>
          ELSE IF Gt(m11, m22) THEN
            LET s == Mul(Sqrt(Sub(Sub(Add(One, m11), m00), m22)), Two)
            IN <<Div(Add(m01, m10), s), Mul(quarter, s), Div(Add(m12, m21), s),
                 Div(Sub(m02, m20), s)>>
          ELSE
            LET s == Mul(Sqrt(Sub(Sub(Add(One, m22), m00), m11)), Two)
            IN <<Div(Add(m02, m20), s), Div(Add(m12, m21), s), Mul(quarter, s),
                 Div(Sub(m10, m01), s)>>
    IN quatNormalizeUnsafe(xyzw)

quatFromRotationMatrix(toFrameTag, fromFrameTag, matrix) ==
    LET m00 == E(matrix, 0)  m10 == E(matrix, 1)  m20 == E(matrix, 2)
        m01 == E(matrix, 4)  m11 == E(matrix, 5)  m21 == E(matrix, 6)
        m02 == E(matrix, 8)  m12 == E(matrix, 9)  m22 == E(matrix, 10)
        failure == assertValidRotationBasis(m00, m01, m02, m10, m11, m12, m20, m21, m22)
    IN IF failure /= "" THEN Throw(failure)
       ELSE quatFromRotationMatrixUnsafe(toFrameTag, fromFrameTag, matrix)

-----------------------------------------------------------------------------
(* matrix4.ts *)

\* the epsilon 1e-10 invertRigidMat4 passes to assertRigidTransform, as its decimal exponent
RIGID_EPSILON_EXP == 10

asMat4(values) == values

\* mat4Unsafe with the length check of mat4
mat4UnsafeChecked(toFrameTag, fromFrameTag, translationUnitTag, values) ==
    IF Len(values) /= 16
    THEN Throw("Mat4 expects 16 values, received " \o ToString(Len(values)))
    ELSE asMat4(values)

\* values.slice(0, 16)
mat4Unsafe(toFrameTag, fromFrameTag, translationUnitTag, values) ==
    asMat4(SubSeq(values, 1, IF Len(values) < 16 THEN Len(values) ELSE 16))

\* a constructor that rejects only arrays shorter than 16 values
mat4AtLeast16(toFrameTag, fromFrameTag, translationUnitTag, values) ==
    IF Len(values) < 16
    THEN Throw("Mat4 expects 16 values, received " \o ToString(Len(values)))
    ELSE mat4Unsafe(toFrameTag, fromFrameTag, translationUnitTag, values)

mat4(toFrameTag, fromFrameTag, translationUnitTag, values) ==
    IF Len(values) /= 16
    THEN Throw("Mat4 expects 16 values, received " \o ToString(Len(values)))
    ELSE mat4Unsafe(toFrameTag, fromFrameTag, translationUnitTag, values)

mat4Identity(frameTag, dimensionlessUnitTag) ==
    mat4(frameTag, frameTag, dimensionlessUnitTag,
         <<One, Zero, Zero, Zero,
           Zero, One, Zero, Zero,
           Zero, Zero, One, Zero,
           Zero, Zero, Zero, One>>)

mat4FromTranslation(frameTag, translation) ==
    asMat4(<<One, Zero, Zero, E(translation, 0),
             Zero, One, Zero, E(translation, 1),
             Zero, Zero, One, E(translation, 2),
             Zero, Zero, Zero, One>>)

mat4FromScale(frameTag, dimensionlessUnitTag, xScale, yScale, zScale) ==
    asMat4(<<xScale, Zero, Zero, Zero,
             Zero, yScale, Zero, Zero,
             Zero, Zero, zScale, Zero,
             Zero, Zero, Zero, One>>)

\* mat4FromQuaternionUnsafe with the rotation block transposed
mat4FromQuaternionUnsafeTransposed(toFrameTag, fromFrameTag, dimensionlessUnitTag, rotation) ==
    LET entries(q) ==
            LET x == E(q, 0)  y == E(q, 1)  z == E(q, 2)  w == E(q, 3)
                xx == Mul(x, x)  yy == Mul(y, y)  zz == Mul(z, z)
                xy == Mul(x, y)  xz == Mul(x, z)  yz == Mul(y, z)
                wx == Mul(w, x)  wy == Mul(w, y)  wz == Mul(w, z)
            IN <<Sub(One, Mul(Two, Add(yy, zz))), Mul(Two, Add(xy, wz)),
                     Mul(Two, Sub(xz, wy)), Zero,
                 Mul(Two, Sub(xy, wz)), Sub(One, Mul(Two, Add(xx, zz))),
                     Mul(Two, Add(yz, wx)), Zero,
                 Mul(Two, Add(xz, wy)), Mul(Two, Sub(yz, wx)),
                     Sub(One, Mul(Two, Add(xx, yy))), Zero,
                 Zero, Zero, Zero, One>>
    IN asMat4(entries(quatNormalizeUnsafe(rotation)))

mat4FromQuaternionUnsafe(toFrameTag, fromFrameTag, dimensionlessUnitTag, rotation) ==
    LET entries(q) ==
            LET x == E(q, 0)  y == E(q, 1)  z == E(q, 2)  w == E(q, 3)
                xx == Mul(x, x)  yy == Mul(y, y)  zz == Mul(z, z)
                xy == Mul(x, y)  xz == Mul(x, z)  yz == Mul(y, z)
                wx == Mul(w, x)  wy == Mul(w, y)  wz == Mul(w, z)
            IN <<Sub(One, Mul(Two, Add(yy, zz))), Mul(Two, Sub(xy, wz)),
                     Mul(Two, Add(xz, wy)), Zero,
                 Mul(Two, Add(xy, wz)), Sub(One, Mul(Two, Add(xx, zz))),
                     Mul(Two, Sub(yz, wx)), Zero,
                 Mul(Two, Sub(xz, wy)), Mul(Two, Add(yz, wx)),
                     Sub(One, Mul(Two, Add(xx, yy))), Zero,
                 Zero, Zero, Zero, One>>
    IN asMat4(entries(quatNormalizeUnsafe(rotation)))

mat4FromQuaternion(toFrameTag, fromFrameTag, dimensionlessUnitTag, rotation) ==
    IF quatNormalizeThrows(rotation) THEN quatNormalize(rotation)
    ELSE mat4FromQuaternionUnsafe(toFrameTag, fromFrameTag, dimensionlessUnitTag, rotation)

mat4FromRigidTransform(toFrameTag, fromFrameTag, rotation, translation) ==
    LET placed(rotationMatrix) ==
            IF Threw(rotationMatrix) THEN rotationMatrix
            ELSE asMat4(<<
              E(rotationMatrix, 0), E(rotationMatrix, 1), E(rotationMatrix, 2),
                  E(translation, 0),
              E(rotationMatrix, 4), E(rotationMatrix, 5), E(rotationMatrix, 6),
                  E(translation, 1),
              E(rotationMatrix, 8), E(rotationMatrix, 9), E(rotationMatrix, 10),
                  E(translation, 2),
              Zero, Zero, Zero, One>>)
    IN placed(mat4FromQuaternion(toFrameTag, fromFrameTag, "none", rotation))

\* a TRS matrix that scales after rotating: row i of the rotation times scale[i]
mat4FromTRSUnsafeScaleLast(toFrameTag, fromFrameTag, translation, rotation, scale) ==
    LET entries(m) ==
            <<Mul(E(m, 0), E(scale, 0)), Mul(E(m, 1), E(scale, 0)),
                  Mul(E(m, 2), E(scale, 0)), E(translation, 0),
              Mul(E(m, 4), E(scale, 1)), Mul(E(m, 5), E(scale, 1)),
                  Mul(E(m, 6), E(scale, 1)), E(translation, 1),
              Mul(E(m, 8), E(scale, 2)), Mul(E(m, 9), E(scale, 2)),
                  Mul(E(m, 10), E(scale, 2)), E(translation, 2),
              Zero, Zero, Zero, One>>
    IN asMat4(entries(mat4FromQuaternionUnsafe(toFrameTag, fromFrameTag, "none", rotation)))

mat4FromTRSUnsafe(toFrameTag, fromFrameTag, translation, rotation, scale) ==
    LET entries(q) ==
            LET x == E(q, 0)  y == E(q, 1)  z == E(q, 2)  w == E(q, 3)
                xx == Mul(x, x)  yy == Mul(y, y)  zz == Mul(z, z)
                xy == Mul(x, y)  xz == Mul(x, z)  yz == Mul(y, z)
                wx == Mul(w, x)  wy == Mul(w, y)  wz == Mul(w, z)
                s_x == E(scale, 0)  s_y == E(scale, 1)  s_z == E(scale, 2)
            IN <<Mul(Sub(One, Mul(Two, Add(yy, zz))), s_x), Mul(Mul(Two, Sub(xy, wz)), s_y),
                     Mul(Mul(Two, Add(xz, wy)), s_z), E(translation, 0),
                 Mul(Mul(Two, Add(xy, wz)), s_x), Mul(Sub(One, Mul(Two, Add(xx, zz))), s_y),
                     Mul(Mul(Two, Sub(yz, wx)), s_z), E(translation, 1),
                 Mul(Mul(Two, Sub(xz, wy)), s_x), Mul(Mul(Two, Add(yz, wx)), s_y),
                     Mul(Sub(One, Mul(Two, Add(xx, yy))), s_z), E(translation, 2),
                 Zero, Zero, Zero, One>>
    IN asMat4(entries(quatNormalizeUnsafe(rotation)))

mat4FromTRS(toFrameTag, fromFrameTag, translation, rotation, scale) ==
    IF quatNormalizeThrows(rotation) THEN quatNormalize(rotation)
    ELSE mat4FromTRSUnsafe(toFrameTag, fromFrameTag, translation, rotation, scale)

multiplyRawReversed(left, right) ==
    [k \in 1..16 |->
        LET row == (k - 1) \div 4
            column == (k - 1) % 4
            rowOffset == row * 4
        IN Add4(Mul(E(right, rowOffset), E(left, column)),
                Mul(E(right, rowOffset + 1), E(left, column + 4)),
                Mul(E(right, rowOffset + 2), E(left, column + 8)),
                Mul(E(right, rowOffset + 3), E(left, column + 12)))]

multiplyRaw(left, right) ==
    [k \in 1..16 |->
        LET row == (k - 1) \div 4
            column == (k - 1) % 4
            rowOffset == row * 4
        IN Add4(Mul(E(left, rowOffset), E(right, column)),
                Mul(E(left, rowOffset + 1), E(right, column + 4)),
                Mul(E(left, rowOffset + 2), E(right, column + 8)),
                Mul(E(left, rowOffset + 3), E(right, column + 12)))]

composeMat4(outer, inner) == asMat4(multiplyRaw(outer, inner))

isApproximately(actual, expected, epsilonExp) ==
    LeqPow10(AbsNum(Sub(actual, expected)), epsilonExp)

\* TRUE when assertRigidTransform throws
assertRigidTransform(value, epsilonExp) ==
    LET row0x == E(value, 0)  row0y == E(value, 1)  row0z == E(value, 2)
        row1x == E(value, 4)  row1y == E(value, 5)  row1z == E(value, 6)
        row2x == E(value, 8)  row2y == E(value, 9)  row2z == E(value, 10)
        norm0 == Add3(Mul(row0x, row0x), Mul(row0y, row0y), Mul(row0z, row0z))
        norm1 == Add3(Mul(row1x, row1x), Mul(row1y, row1y), Mul(row1z, row1z))
        norm2 == Add3(Mul(row2x, row2x), Mul(row2y, row2y), Mul(row2z, row2z))
        dot01 == Add3(Mul(row0x, row1x), Mul(row0y, row1y), Mul(row0z, row1z))
        dot02 == Add3(Mul(row0x, row2x), Mul(row0y, row2y), Mul(row0z, row2z))
        dot12 == Add3(Mul(row1x, row2x), Mul(row1y, row2y), Mul(row1z, row2z))
        isRigid ==
            /\ IsFinite(norm0) /\ IsFinite(norm1) /\ IsFinite(norm2)
            /\ isApproximately(norm0, One, epsilonExp)
            /\ isApproximately(norm1, One, epsilonExp)
            /\ isApproximately(norm2, One, epsilonExp)
            /\ isApproximately(dot01, Zero, epsilonExp)
            /\ isApproximately(dot02, Zero, epsilonExp)
            /\ isApproximately(dot12, Zero, epsilonExp)
            /\ isApproximately(E(value, 12), Zero, epsilonExp)
            /\ isApproximately(E(value, 13), Zero, epsilonExp)
            /\ isApproximately(E(value, 14), Zero, epsilonExp)
            /\ isApproximately(E(value, 15), One, epsilonExp)
    IN ~isRigid

invertRigidMat4UnsafeKeepTranslation(value) ==
    asMat4(<<E(value, 0), E(value, 4), E(value, 8), Neg(E(value, 3)),
             E(value, 1), E(value, 5), E(value, 9), Neg(E(value, 7)),
             E(value, 2), E(value, 6), E(value, 10), Neg(E(value, 11)),
             Zero, Zero, Zero, One>>)

invertRigidMat4Unsafe(value) ==
    LET r00 == E(value, 0)  r01 == E(value, 1)  r02 == E(value, 2)
        r10 == E(value, 4)  r11 == E(value, 5)  r12 == E(value, 6)
        r20 == E(value, 8)  r21 == E(value, 9)  r22 == E(value, 10)
        t_x == E(value, 3)  t_y == E(value, 7)  t_z == E(value, 11)
        inverseTx == Neg(Add3(Mul(r00, t_x), Mul(r10, t_y), Mul(r20, t_z)))
        inverseTy == Neg(Add3(Mul(r01, t_x), Mul(r11, t_y), Mul(r21, t_z)))
        inverseTz == Neg(Add3(Mul(r02, t_x), Mul(r12, t_y), Mul(r22, t_z)))
    IN asMat4(<<r00, r10, r20, inverseTx,
                r01, r11, r21, inverseTy,
                r02, r12, r22, inverseTz,
                Zero, Zero, Zero, One>>)

invertRigidMat4(value) ==
    IF assertRigidTransform(value, RIGID_EPSILON_EXP) THEN Throw("Matrix is not a rigid transform")
    ELSE invertRigidMat4Unsafe(value)

transformPoint3NoTranslation(point, matrix) ==
    LET x == E(point, 0)  y == E(point, 1)  z == E(point, 2)
    IN <<Add3(Mul(E(matrix, 0), x), Mul(E(matrix, 1), y), Mul(E(matrix, 2), z)),
         Add3(Mul(E(matrix, 4), x), Mul(E(matrix, 5), y), Mul(E(matrix, 6), z)),
         Add3(Mul(E(matrix, 8), x), Mul(E(matrix, 9), y), Mul(E(matrix, 10), z))>>

transformPoint3(point, matrix) ==
    LET x == E(point, 0)  y == E(point, 1)  z == E(point, 2)
    IN <<Add4(Mul(E(matrix, 0), x), Mul(E(matrix, 1), y), Mul(E(matrix, 2), z), E(matrix, 3)),
         Add4(Mul(E(matrix, 4), x), Mul(E(matrix, 5), y), Mul(E(matrix, 6), z), E(matrix, 7)),
         Add4(Mul(E(matrix, 8), x), Mul(E(matrix, 9), y), Mul(E(matrix, 10), z), E(matrix, 11))>>

\* transformDirection3 with the translation column added
transformDirection3WithTranslation(direction, matrix) ==
    LET x == E(direction, 0)  y == E(direction, 1)  z == E(direction, 2)
    IN <<Add4(Mul(E(matrix, 0), x), Mul(E(matrix, 1), y), Mul(E(matrix, 2), z), E(matrix, 3)),
         Add4(Mul(E(matrix, 4), x), Mul(E(matrix, 5), y), Mul(E(matrix, 6), z), E(matrix, 7)),
         Add4(Mul(E(matrix, 8), x), Mul(E(matrix, 9), y), Mul(E(matrix, 10), z),
              E(matrix, 11))>>

transformDirection3(direction, matrix) ==
    LET x == E(direction, 0)  y == E(direction, 1)  z == E(direction, 2)
    IN <<Add3(Mul(E(matrix, 0), x), Mul(E(matrix, 1), y), Mul(E(matrix, 2), z)),
         Add3(Mul(E(matrix, 4), x), Mul(E(matrix, 5), y), Mul(E(matrix, 6), z)),
         Add3(Mul(E(matrix, 8), x), Mul(E(matrix, 9), y), Mul(E(matrix, 10), z))>>

-----------------------------------------------------------------------------
(* vector3.ts and units.ts *)

\* NEAR_ZERO = 1e-14 of vector3.ts, as a decimal exponent
VEC3_NEAR_ZERO_EXP == 14

\* Math.hypot(x, y, z): +Infinity when an argument is infinite, NaN when one is NaN
MathHypot(x, y, z) ==
    IF \E a \in {x, y, z} : a \in {PosInf, NegInf} THEN PosInf
    ELSE Sqrt(Add3(Mul(x, x), Mul(y, y), Mul(z, z)))

\* Math.min and Math.max of two numbers: NaN when either is NaN
MathMin(a, b) == IF IsNaN(a) \/ IsNaN(b) THEN NaN ELSE IF Lt(b, a) THEN b ELSE a

MathMax(a, b) == IF IsNaN(a) \/ IsNaN(b) THEN NaN ELSE IF Lt(a, b) THEN b ELSE a

\* An angle is held as the pair <<cosine, sine>>.  Math.acos(c) is the angle in
\* [0, pi] whose cosine is c, so its sine is sqrt(1 - c*c); NaN outside [-1, 1].
MathAcos(c) ==
    IF IsNaN(c) \/ Lt(One, c) \/ Lt(c, Num(-1)) THEN <<NaN, NaN>>
    ELSE <<c, Sqrt(Sub(One, Mul(c, c)))>>

MathSin(angle) == angle[2]

MathCos(angle) == angle[1]

lengthVec3(value) == MathHypot(E(value, 0), E(value, 1), E(value, 2))

normalizeVec3Unsafe(value) ==
    LET scaled(magnitude) ==
            <<Div(E(value, 0), magnitude), Div(E(value, 1), magnitude),
              Div(E(value, 2), magnitude)>>
    IN scaled(lengthVec3(value))

\* a guard with the threshold 1 in place of NEAR_ZERO
normalizeVec3ThrowsBelowOne(value) == LeqPow10(lengthVec3(value), 0)

\* TRUE when normalizeVec3 throws
normalizeVec3Throws(value) == LeqPow10(lengthVec3(value), VEC3_NEAR_ZERO_EXP)

normalizeVec3(value) ==
    IF normalizeVec3Throws(value) THEN Throw("Cannot normalize a zero-length vector")
    ELSE normalizeVec3Unsafe(value)

projectVec3Unsafe(value, onto) ==
    LET ontoLengthSquared ==
            Add3(Mul(E(onto, 0), E(onto, 0)), Mul(E(onto, 1), E(onto, 1)),
                 Mul(E(onto, 2), E(onto, 2)))
        dotValueOnto ==
            Add3(Mul(E(value, 0), E(onto, 0)), Mul(E(value, 1), E(onto, 1)),
                 Mul(E(value, 2), E(onto, 2)))
        scalar == Div(dotValueOnto, ontoLengthSquared)
    IN <<Mul(E(onto, 0), scalar), Mul(E(onto, 1), scalar), Mul(E(onto, 2), scalar)>>

projectVec3(value, onto) ==
    LET ontoLengthSquared ==
            Add3(Mul(E(onto, 0), E(onto, 0)), Mul(E(onto, 1), E(onto, 1)),
                 Mul(E(onto, 2), E(onto, 2)))
    IN IF LeqPow10(ontoLengthSquared, 2 * VEC3_NEAR_ZERO_EXP)
       THEN Throw("Cannot project onto a zero-length vector")
       ELSE projectVec3Unsafe(value, onto)

reflectVec3Unsafe(incident, normal) ==
    LET reflected(dir_normalized) ==
            LET dotIncidentNormal ==
                    Add3(Mul(E(incident, 0), E(dir_normalized, 0)),
                         Mul(E(incident, 1), E(dir_normalized, 1)),
                         Mul(E(incident, 2), E(dir_normalized, 2)))
                scale == Mul(Two, dotIncidentNormal)
            IN <<Sub(E(incident, 0), Mul(E(dir_normalized, 0), scale)),
                 Sub(E(incident, 1), Mul(E(dir_normalized, 1), scale)),
                 Sub(E(incident, 2), Mul(E(dir_normalized, 2), scale))>>
    IN reflected(normalizeVec3Unsafe(normal))

reflectVec3(incident, normal) ==
    IF normalizeVec3Throws(normal) THEN normalizeVec3(normal)
    ELSE reflectVec3Unsafe(incident, normal)

angleBetweenVec3Unsafe(left, right) ==
    LET leftLength == MathHypot(E(left, 0), E(left, 1), E(left, 2))
        rightLength == MathHypot(E(right, 0), E(right, 1), E(right, 2))
        dotLeftRight ==
            Add3(Mul(E(left, 0), E(right, 0)), Mul(E(left, 1), E(right, 1)),
                 Mul(E(left, 2), E(right, 2)))
        lengthProduct == Mul(leftLength, rightLength)
        cosine == Div(dotLeftRight, lengthProduct)
        clamped == MathMax(Num(-1), MathMin(One, cosine))
    IN MathAcos(clamped)

angleBetweenVec3(left, right) ==
    LET leftLength == MathHypot(E(left, 0), E(left, 1), E(left, 2))
        rightLength == MathHypot(E(right, 0), E(right, 1), E(right, 2))
    IN IF LeqPow10(leftLength, VEC3_NEAR_ZERO_EXP) \/ LeqPow10(rightLength, VEC3_NEAR_ZERO_EXP)
       THEN Throw("Cannot compute angle with a zero-length vector")
       ELSE angleBetweenVec3Unsafe(left, right)

min(left, right) == MathMin(left, right)

max(left, right) == MathMax(left, right)

clampUnsafe(value, minValue, maxValue) == max(minValue, min(value, maxValue))

clamp(value, minValue, maxValue) ==
    IF Gt(minValue, maxValue) THEN Throw("minValue must be <= maxValue")
    ELSE clampUnsafe(value, minValue, maxValue)

-----------------------------------------------------------------------------

(* quaternion.ts: inverse, axis-angle, Euler angles and interpolation *)

\* An angle in (-pi, pi] is held as <<cosine, sine>>.  angle * t for the multipliers
\* 0, 0.5 and 1; the half angle lies in (-pi/2, pi/2], so its cosine is not negative
\* and its sine has the sign of the sine of the angle (sine 1 for the angle pi).
AngleTimes(angle, t) ==
    CASE t = Zero -> <<One, Zero>>
      [] t = One -> angle
      [] t = Rat(1, 2) ->
            IF IsNaN(angle[1]) \/ IsNaN(angle[2]) THEN <<NaN, NaN>>
            ELSE <<Sqrt(Div(Add(One, angle[1]), Two)),
                   IF Lt(angle[2], Zero) THEN Neg(Sqrt(Div(Sub(One, angle[1]), Two)))
                   ELSE Sqrt(Div(Sub(One, angle[1]), Two))>>

\* left - right of two angles
AngleMinus(left, right) ==
    <<Add(Mul(left[1], right[1]), Mul(left[2], right[2])),
      Sub(Mul(left[2], right[1]), Mul(left[1], right[2]))>>

quatIdentity(frameTag) == asQuaternion(Zero, Zero, Zero, One)

quatConjugate(value) ==
    asQuaternion(Neg(E(value, 0)), Neg(E(value, 1)), Neg(E(value, 2)), E(value, 3))

quatInverseUnsafe(value) ==
    LET divided(normSquared, conjugate) ==
            asQuaternion(Div(E(conjugate, 0), normSquared), Div(E(conjugate, 1), normSquared),
                         Div(E(conjugate, 2), normSquared), Div(E(conjugate, 3), normSquared))
    IN divided(quatNormSquared(value), quatConjugate(value))

quatInverse(value) ==
    IF LeqPow10(quatNormSquared(value), 2 * NEAR_ZERO_EXP)
    THEN Throw("Cannot invert a zero-length quaternion")
    ELSE quatInverseUnsafe(value)

quatFromAxisAngleUnsafe(frameTag, axis, angleRadians) ==
    LET built(normalizedAxis, halfAngle) ==
            asQuaternion(Mul(E(normalizedAxis, 0), MathSin(halfAngle)),
                         Mul(E(normalizedAxis, 1), MathSin(halfAngle)),
                         Mul(E(normalizedAxis, 2), MathSin(halfAngle)),
                         MathCos(halfAngle))
    IN built(normalizeVec3Unsafe(axis), AngleTimes(angleRadians, Rat(1, 2)))

quatFromAxisAngle(frameTag, axis, angleRadians) ==
    IF normalizeVec3Throws(axis) THEN normalizeVec3(axis)
    ELSE quatFromAxisAngleUnsafe(frameTag, axis, angleRadians)

\* the single-axis quaternion of quatFromEulerUnsafe
makeAxisQuat(axis, xRadians, yRadians, zRadians) ==
    LET built(half) ==
            IF axis = "X" THEN asQuaternion(MathSin(half), Zero, Zero, MathCos(half))
            ELSE IF axis = "Y" THEN asQuaternion(Zero, MathSin(half), Zero, MathCos(half))
            ELSE asQuaternion(Zero, Zero, MathSin(half), MathCos(half))
    IN built(AngleTimes(IF axis = "X" THEN xRadians
                        ELSE IF axis = "Y" THEN yRadians ELSE zRadians, Rat(1, 2)))

\* the loop with the rotation composed on the other side
eulerStepInnermostLast(quat_result, axis, xRadians, yRadians, zRadians) ==
    composeQuats(quat_result, makeAxisQuat(axis, xRadians, yRadians, zRadians))

\* one pass of the loop of quatFromEulerUnsafe over order[index]
eulerStep(quat_result, axis, xRadians, yRadians, zRadians) ==
    composeQuats(makeAxisQuat(axis, xRadians, yRadians, zRadians), quat_result)

\* order is a sequence of three axis letters, so the loop runs three times
quatFromEulerUnsafe(frameTag, xRadians, yRadians, zRadians, order) ==
    quatNormalizeUnsafe(
        eulerStep(eulerStep(eulerStep(quatIdentity(frameTag),
                                      order[1], xRadians, yRadians, zRadians),
                            order[2], xRadians, yRadians, zRadians),
                  order[3], xRadians, yRadians, zRadians))

quatFromEuler(frameTag, xRadians, yRadians, zRadians, order) ==
    quatNormalize(quatFromEulerUnsafe(frameTag, xRadians, yRadians, zRadians, order))

\* end, negated when dot < 0
nlerpEnd(start, end) ==
    LET dot == Add4(Mul(E(start, 0), E(end, 0)), Mul(E(start, 1), E(end, 1)),
                    Mul(E(start, 2), E(end, 2)), Mul(E(start, 3), E(end, 3)))
    IN IF Lt(dot, Zero)
       THEN <<Neg(E(end, 0)), Neg(E(end, 1)), Neg(E(end, 2)), Neg(E(end, 3))>>
       ELSE end

\* the blend of quatNlerp and quatNlerpUnsafe before it is normalized
nlerpBlend(start, end, t) ==
    LET blended(flipped, inverseT) ==
            asQuaternion(Add(Mul(E(start, 0), inverseT), Mul(E(flipped, 0), t)),
                         Add(Mul(E(start, 1), inverseT), Mul(E(flipped, 1), t)),
                         Add(Mul(E(start, 2), inverseT), Mul(E(flipped, 2), t)),
                         Add(Mul(E(start, 3), inverseT), Mul(E(flipped, 3), t)))
    IN blended(nlerpEnd(start, end), Sub(One, t))

quatNlerpUnsafe(start, end, t) == quatNormalizeUnsafe(nlerpBlend(start, end, t))

quatNlerp(start, end, t) == quatNormalize(nlerpBlend(start, end, t))

\* the threshold 0.9995 of quatSlerp
SLERP_LINEAR_THRESHOLD == Rat(1999, 2000)

\* the dot product of start and end
slerpDot(start, end) ==
    Add4(Mul(E(start, 0), E(end, 0)), Mul(E(start, 1), E(end, 1)),
         Mul(E(start, 2), E(end, 2)), Mul(E(start, 3), E(end, 3)))

\* cosine after the shortest-path flip
slerpCosine(start, end) ==
    IF Lt(slerpDot(start, end), Zero) THEN Neg(slerpDot(start, end))
    ELSE slerpDot(start, end)

\* end without the shortest-path flip
slerpEndUnflipped(start, end) == end

\* end after the shortest-path flip
slerpEnd(start, end) ==
    IF Lt(slerpDot(start, end), Zero)
    THEN asQuaternion(Neg(E(end, 0)), Neg(E(end, 1)), Neg(E(end, 2)), Neg(E(end, 3)))
    ELSE end

\* the spherical blend of quatSlerp and quatSlerpUnsafe before it is normalized
slerpBlend(start, end, t) ==
    LET blended(flipped, s0, s1) ==
            asQuaternion(Add(Mul(s0, E(start, 0)), Mul(s1, E(flipped, 0))),
                         Add(Mul(s0, E(start, 1)), Mul(s1, E(flipped, 1))),
                         Add(Mul(s0, E(start, 2)), Mul(s1, E(flipped, 2))),
                         Add(Mul(s0, E(start, 3)), Mul(s1, E(flipped, 3))))
        weights(theta0, theta) ==
            blended(slerpEnd(start, end),
                    Div(MathSin(AngleMinus(theta0, theta)), MathSin(theta0)),
                    Div(MathSin(theta), MathSin(theta0)))
        angles(theta0) == weights(theta0, AngleTimes(theta0, t))
    IN angles(MathAcos(MathMax(Num(-1), MathMin(One, slerpCosine(start, end)))))

quatSlerpUnsafe(start, end, t) ==
    IF Gt(slerpCosine(start, end), SLERP_LINEAR_THRESHOLD)
    THEN quatNlerpUnsafe(start, slerpEnd(start, end), t)
    ELSE quatNormalizeUnsafe(slerpBlend(start, end, t))

quatSlerp(start, end, t) ==
    IF Gt(slerpCosine(start, end), SLERP_LINEAR_THRESHOLD)
    THEN quatNlerp(start, slerpEnd(start, end), t)
    ELSE quatNormalize(slerpBlend(start, end, t))

-----------------------------------------------------------------------------

(* matrix4.ts: projection, view and normal matrices *)

\* Math.tan of an angle held as <<cosine, sine>>
MathTan(angle) == Div(angle[2], angle[1])

\* 0 < angle < Math.PI, for an angle in (-pi, pi] held as <<cosine, sine>>
BetweenZeroAndPi(angle) == Gt(angle[2], Zero)

\* a projection whose depth range is [0, 1]: entry 11 is far * near * rangeInverse
mat4PerspectiveUnsafeZeroToOne(toFrameTag, fromFrameTag, fieldOfViewYRadians, aspect, near, far) ==
    LET entries(f, rangeInverse) ==
            <<Div(f, aspect), Zero, Zero, Zero,
              Zero, f, Zero, Zero,
              Zero, Zero, Mul(far, rangeInverse), Mul(Mul(far, near), rangeInverse),
              Zero, Zero, Num(-1), Zero>>
    IN entries(Div(One, MathTan(AngleTimes(fieldOfViewYRadians, Rat(1, 2)))),
               Div(One, Sub(near, far)))

mat4PerspectiveUnsafe(toFrameTag, fromFrameTag, fieldOfViewYRadians, aspect, near, far) ==
    LET entries(f, rangeInverse) ==
            <<Div(f, aspect), Zero, Zero, Zero,
              Zero, f, Zero, Zero,
              Zero, Zero, Mul(Add(far, near), rangeInverse),
                  Mul(Mul(Mul(Two, far), near), rangeInverse),
              Zero, Zero, Num(-1), Zero>>
    IN entries(Div(One, MathTan(AngleTimes(fieldOfViewYRadians, Rat(1, 2)))),
               Div(One, Sub(near, far)))

\* a validation that lets near = far through
mat4PerspectiveNearUpToFar(toFrameTag, fromFrameTag, fieldOfViewYRadians, aspect, near, far) ==
    IF ~BetweenZeroAndPi(fieldOfViewYRadians)
    THEN Throw("fieldOfViewYRadians must be in (0, PI)")
    ELSE IF ~Gt(aspect, Zero) THEN Throw("aspect must be > 0")
    ELSE IF ~(Gt(near, Zero) /\ Gt(far, Zero) /\ Leq(near, far))
    THEN Throw("near and far must satisfy 0 < near < far")
    ELSE mat4PerspectiveUnsafe(toFrameTag, fromFrameTag, fieldOfViewYRadians, aspect,
                               near, far)

mat4Perspective(toFrameTag, fromFrameTag, fieldOfViewYRadians, aspect, near, far) ==
    IF ~BetweenZeroAndPi(fieldOfViewYRadians)
    THEN Throw("fieldOfViewYRadians must be in (0, PI)")
    ELSE IF ~Gt(aspect, Zero) THEN Throw("aspect must be > 0")
    ELSE IF ~(Gt(near, Zero) /\ Gt(far, Zero) /\ Lt(near, far))
    THEN Throw("near and far must satisfy 0 < near < far")
    ELSE mat4PerspectiveUnsafe(toFrameTag, fromFrameTag, fieldOfViewYRadians, aspect,
                               near, far)

\* clipW of projectPoint3 and projectPoint3Unsafe
clipWOf(point, projection) ==
    Add4(Mul(E(projection, 12), E(point, 0)), Mul(E(projection, 13), E(point, 1)),
         Mul(E(projection, 14), E(point, 2)), E(projection, 15))

projectPoint3Unsafe(point, projection) ==
    LET x == E(point, 0)  y == E(point, 1)  z == E(point, 2)
        clipX == Add4(Mul(E(projection, 0), x), Mul(E(projection, 1), y),
                      Mul(E(projection, 2), z), E(projection, 3))
        clipY == Add4(Mul(E(projection, 4), x), Mul(E(projection, 5), y),
                      Mul(E(projection, 6), z), E(projection, 7))
        clipZ == Add4(Mul(E(projection, 8), x), Mul(E(projection, 9), y),
                      Mul(E(projection, 10), z), E(projection, 11))
        invW == Div(One, clipWOf(point, projection))
    IN <<Mul(clipX, invW), Mul(clipY, invW), Mul(clipZ, invW)>>

\* a guard that rejects every w that is not positive
projectPoint3ThrowsBehindCamera(point, projection) ==
    ~Gt(clipWOf(point, projection), Zero)

\* TRUE when projectPoint3 throws
projectPoint3Throws(point, projection) == StrictEq(clipWOf(point, projection), Zero)

projectPoint3(point, projection) ==
    IF projectPoint3Throws(point, projection)
    THEN Throw("Perspective divide is undefined for w = 0")
    ELSE projectPoint3Unsafe(point, projection)

\* mat4LookAt compares with exactly 0 a length computed from quotients and products
\* of square roots, so the outcome of the comparison depends on the rounding of each
\* operation.  Its vector algebra is therefore computed in floating point, rounding to
\* nearest with ties to even, on a significand of FloatBits bits in place of 53.
FloatBits == 8

\* <<n, d, up, down>> with 2^(FloatBits-1) <= n/d < 2^FloatBits, the value being
\* (n/d) * up / down
RECURSIVE FloatNormal(_, _, _, _)
FloatNormal(n, d, up, down) ==
    IF n \div d >= 2^FloatBits THEN FloatNormal(n, 2 * d, 2 * up, down)
    ELSE IF n \div d >= 2^(FloatBits - 1) THEN <<n, d, up, down>>
    ELSE IF d % 2 = 0 THEN FloatNormal(n, d \div 2, up, 2 * down)
    ELSE FloatNormal(2 * n, d, up, 2 * down)

\* the floating-point number nearest to a
FloatRound(a) ==
    IF ~IsFinite(a) \/ a = Zero THEN a
    ELSE LET nearest(s) ==
                 LET q == s[1] \div s[2]
                     r == s[1] % s[2]
                 IN IF 2 * r > s[2] \/ (2 * r = s[2] /\ q % 2 = 1) THEN q + 1 ELSE q
             rounded(s) == Rat(SignInt(a[1]) * nearest(s) * s[3], s[4])
         IN rounded(FloatNormal(AbsInt(a[1]), a[2], 1, 1))

FloatSub(a, b) == FloatRound(Sub(a, b))
FloatMul(a, b) == FloatRound(Mul(a, b))
FloatDiv(a, b) == FloatRound(Div(a, b))

\* the nearest integer to sqrt(n) for 4^(FloatBits-1) <= n < 4^FloatBits
FloatRoot(n) == LET m == ISqrt(n) IN IF n > m * m + m THEN m + 1 ELSE m

\* the floating-point square root of the integer n * 4^-k, k >= 0
RECURSIVE FloatSqrtUp(_, _)
FloatSqrtUp(n, down) ==
    IF n < 4^(FloatBits - 1) THEN FloatSqrtUp(4 * n, 2 * down)
    ELSE Rat(FloatRoot(n), down)

\* the floating-point square root of an integer n >= 4^FloatBits: with y = n / scale^2
\* and m = floor(sqrt(y)), m + 1 when y > (m + 1/2)^2 and m otherwise, times scale
RECURSIVE FloatSqrtDown(_, _)
FloatSqrtDown(n, scale) ==
    IF n \div (scale * scale) >= 4^FloatBits THEN FloatSqrtDown(n, 2 * scale)
    ELSE LET root(m) ==
                 IF 4 * (n - (m * m + m) * scale * scale) > scale * scale
                 THEN m + 1 ELSE m
         IN Num(root(ISqrt(n \div (scale * scale))) * scale)

\* Math.sqrt of n/d with d a power of two: sqrt(n) / sqrt(d) when d is a power of four,
\* sqrt(2 * n) / sqrt(2 * d) otherwise
FloatSqrt(a) ==
    IF IsNaN(a) \/ a[1] < 0 THEN NaN
    ELSE IF a = PosInf \/ a = Zero THEN a
    ELSE LET root(n) == IF n < 4^FloatBits THEN FloatSqrtUp(n, 1)
                        ELSE FloatSqrtDown(n, 2)
             over(n, d) == Div(root(n), Num(ISqrt(d)))
         IN IF ISqrt(a[2]) * ISqrt(a[2]) = a[2] THEN over(a[1], a[2])
            ELSE over(2 * a[1], 2 * a[2])

\* Math.hypot: Infinity when an argument is infinite, else the rounded root of the
\* sum of the squares
FloatHypot(x, y, z) ==
    IF ~(IsFinite(x) /\ IsFinite(y) /\ IsFinite(z)) THEN MathHypot(x, y, z)
    ELSE LET common(a, b) == (a \div GCD(a, b)) * b
             squares(d) ==
                 LET scaled(a) == a[1] * (d \div a[2])
                 IN Rat(scaled(x) * scaled(x) + scaled(y) * scaled(y)
                            + scaled(z) * scaled(z), d * d)
         IN FloatSqrt(squares(common(x[2], common(y[2], z[2]))))

\* forward, up and right of mat4LookAt, before they are normalized
lookAtForward(point_eye_from, point_target_from) ==
    <<FloatSub(E(point_target_from, 0), E(point_eye_from, 0)),
      FloatSub(E(point_target_from, 1), E(point_eye_from, 1)),
      FloatSub(E(point_target_from, 2), E(point_eye_from, 2))>>

\* a / Math.hypot(a), component by component
lookAtUnit(a) ==
    LET scaled(length) ==
            <<FloatDiv(a[1], length), FloatDiv(a[2], length), FloatDiv(a[3], length)>>
    IN scaled(FloatHypot(a[1], a[2], a[3]))

\* left x right, as the source writes its cross products
lookAtCross(left, right) ==
    <<FloatSub(FloatMul(left[2], right[3]), FloatMul(left[3], right[2])),
      FloatSub(FloatMul(left[3], right[1]), FloatMul(left[1], right[3])),
      FloatSub(FloatMul(left[1], right[2]), FloatMul(left[2], right[1]))>>

lookAtRight(point_eye_from, point_target_from, dir_up_from) ==
    lookAtCross(lookAtUnit(lookAtForward(point_eye_from, point_target_from)),
                lookAtUnit(dir_up_from))

mat4LookAtUnsafe(toFrameTag, fromFrameTag, point_eye_from, point_target_from, dir_up_from) ==
    LET entries(dir_forward, dir_right) ==
            LET placed(dir_up_orthogonal) ==
                    <<dir_right[1], dir_right[2], dir_right[3],
                          Neg(Add3(Mul(dir_right[1], E(point_eye_from, 0)),
                                   Mul(dir_right[2], E(point_eye_from, 1)),
                                   Mul(dir_right[3], E(point_eye_from, 2)))),
                      dir_up_orthogonal[1], dir_up_orthogonal[2], dir_up_orthogonal[3],
                          Neg(Add3(Mul(dir_up_orthogonal[1], E(point_eye_from, 0)),
                                   Mul(dir_up_orthogonal[2], E(point_eye_from, 1)),
                                   Mul(dir_up_orthogonal[3], E(point_eye_from, 2)))),
                      Neg(dir_forward[1]), Neg(dir_forward[2]), Neg(dir_forward[3]),
                          Add3(Mul(dir_forward[1], E(point_eye_from, 0)),
                               Mul(dir_forward[2], E(point_eye_from, 1)),
                               Mul(dir_forward[3], E(point_eye_from, 2))),
                      Zero, Zero, Zero, One>>
            IN asMat4(placed(lookAtCross(dir_right, dir_forward)))
    IN entries(lookAtUnit(lookAtForward(point_eye_from, point_target_from)),
               lookAtUnit(lookAtRight(point_eye_from, point_target_from, dir_up_from)))

mat4LookAt(toFrameTag, fromFrameTag, point_eye_from, point_target_from, dir_up_from) ==
    LET lengthOf(a) == FloatHypot(a[1], a[2], a[3])
    IN IF StrictEq(lengthOf(lookAtForward(point_eye_from, point_target_from)), Zero)
       THEN Throw("LookAt requires eye and target to be distinct")
       ELSE IF StrictEq(lengthOf(dir_up_from), Zero)
       THEN Throw("LookAt requires a non-zero up direction")
       ELSE IF StrictEq(lengthOf(lookAtRight(point_eye_from, point_target_from,
                                             dir_up_from)), Zero)
       THEN Throw("LookAt up direction cannot be parallel to forward")
       ELSE mat4LookAtUnsafe(toFrameTag, fromFrameTag, point_eye_from, point_target_from,
                             dir_up_from)

\* the determinant that normalMatrixFromMat4 and its unsafe twin compute
normalMatrixDeterminant(value) ==
    LET a == E(value, 0)  b == E(value, 1)  c == E(value, 2)
        d == E(value, 4)  e == E(value, 5)  f == E(value, 6)
        g == E(value, 8)  h == E(value, 9)  i == E(value, 10)
        co00 == Sub(Mul(e, i), Mul(f, h))
        co10 == Sub(Mul(f, g), Mul(d, i))
        co20 == Sub(Mul(d, h), Mul(e, g))
    IN Add3(Mul(a, co00), Mul(b, co10), Mul(c, co20))

normalMatrixFromMat4Unsafe(value) ==
    LET a == E(value, 0)  b == E(value, 1)  c == E(value, 2)
        d == E(value, 4)  e == E(value, 5)  f == E(value, 6)
        g == E(value, 8)  h == E(value, 9)  i == E(value, 10)
        co00 == Sub(Mul(e, i), Mul(f, h))
        co01 == Sub(Mul(c, h), Mul(b, i))
        co02 == Sub(Mul(b, f), Mul(c, e))
        co10 == Sub(Mul(f, g), Mul(d, i))
        co11 == Sub(Mul(a, i), Mul(c, g))
        co12 == Sub(Mul(c, d), Mul(a, f))
        co20 == Sub(Mul(d, h), Mul(e, g))
        co21 == Sub(Mul(b, g), Mul(a, h))
        co22 == Sub(Mul(a, e), Mul(b, d))
        scaled(inverseDeterminant) ==
            asMat4(<<Mul(co00, inverseDeterminant), Mul(co10, inverseDeterminant),
                         Mul(co20, inverseDeterminant), Zero,
                     Mul(co01, inverseDeterminant), Mul(co11, inverseDeterminant),
                         Mul(co21, inverseDeterminant), Zero,
                     Mul(co02, inverseDeterminant), Mul(co12, inverseDeterminant),
                         Mul(co22, inverseDeterminant), Zero,
                     Zero, Zero, Zero, One>>)
    IN scaled(Div(One, normalMatrixDeterminant(value)))

normalMatrixFromMat4(value) ==
    IF StrictEq(normalMatrixDeterminant(value), Zero)
    THEN Throw("Cannot build a normal matrix from a singular transform")
    ELSE normalMatrixFromMat4Unsafe(value)

-----------------------------------------------------------------------------

(* createTrsMat4Cache: one cache, created for frames world <- body *)

CacheToFrame == "world"
CacheFromFrame == "body"

\* a call's 10 scalars: translation[0..2], rotation[0..3], scale[0..2]
translationOf(input) == SubSeq(input, 1, 3)
rotationOf(input) == SubSeq(input, 4, 7)
scaleOf(input) == SubSeq(input, 8, 10)

\* one call's inputs: translation (2,3,4) as in the cache example, identity rotation, unit scale
BaseInput == <<Num(2), Num(3), Num(4), Zero, Zero, Zero, One, One, One, One>>

\* the value a scalar of BaseInput is changed to
ChangedScalar(i) ==
    IF i \in 1..3 THEN Add(BaseInput[i], One)
    ELSE IF i \in 4..6 THEN Rat(3, 4)
    ELSE Two

\* BaseInput, BaseInput with one scalar changed, the closure's initial slot values,
\* a zero rotation (mat4FromTRS throws) and a NaN translation (never === itself)
TrsInputs ==
    {BaseInput}
    \cup {[BaseInput EXCEPT ![i] = ChangedScalar(i)] : i \in 1..10}
    \cup {<<Zero, Zero, Zero, Zero, Zero, Zero, One, One, One, One>>}
    \cup {[BaseInput EXCEPT ![7] = Zero]}
    \cup {[BaseInput EXCEPT ![1] = NaN]}

\* the outcome recorded for a call that threw; a returned matrix is recorded by its heap index
Thrown == 0

InitCache ==
    /\ hasCached = FALSE
    /\ heap = <<asMat4(<<One, Zero, Zero, Zero,
                         Zero, One, Zero, Zero,
                         Zero, Zero, One, Zero,
                         Zero, Zero, Zero, One>>)>>
    /\ cached = 1
    /\ tx = Zero /\ ty = Zero /\ tz = Zero
    /\ qx = Zero /\ qy = Zero /\ qz = Zero /\ qw = One
    /\ sx = One /\ sy = One /\ sz = One
    /\ calls = <<>>

cacheHitNever(translation, rotation, scale) == FALSE

cacheHitIgnoresScale(translation, rotation, scale) ==
    /\ hasCached
    /\ StrictEq(E(translation, 0), tx) /\ StrictEq(E(translation, 1), ty)
    /\ StrictEq(E(translation, 2), tz)
    /\ StrictEq(E(rotation, 0), qx) /\ StrictEq(E(rotation, 1), qy)
    /\ StrictEq(E(rotation, 2), qz) /\ StrictEq(E(rotation, 3), qw)

\* a comparison that leaves the rotation out
cacheHitIgnoresRotation(translation, rotation, scale) ==
    /\ hasCached
    /\ StrictEq(E(translation, 0), tx) /\ StrictEq(E(translation, 1), ty)
    /\ StrictEq(E(translation, 2), tz)
    /\ StrictEq(E(scale, 0), sx) /\ StrictEq(E(scale, 1), sy)
    /\ StrictEq(E(scale, 2), sz)

\* the condition of the closure's if: every input scalar === the stored one
cacheHit(translation, rotation, scale) ==
    /\ hasCached
    /\ StrictEq(E(translation, 0), tx)
    /\ StrictEq(E(translation, 1), ty)
    /\ StrictEq(E(translation, 2), tz)
    /\ StrictEq(E(rotation, 0), qx)
    /\ StrictEq(E(rotation, 1), qy)
    /\ StrictEq(E(rotation, 2), qz)
    /\ StrictEq(E(rotation, 3), qw)
    /\ StrictEq(E(scale, 0), sx)
    /\ StrictEq(E(scale, 1), sy)
    /\ StrictEq(E(scale, 2), sz)

\* a throw that also forgets the cached matrix
TrsCacheThrowForgets(translation, rotation, scale) ==
    /\ ~cacheHit(translation, rotation, scale)
    /\ Threw(mat4FromTRS(CacheToFrame, CacheFromFrame, translation, rotation, scale))
    /\ calls' = Append(calls, [input |-> translation \o rotation \o scale, out |-> Thrown])
    /\ hasCached' = FALSE
    /\ UNCHANGED <<cached, tx, ty, tz, qx, qy, qz, qw, sx, sy, sz, heap>>

\* a rebuild that writes the new entries into the array it returned before
TrsCacheRebuildInPlace(translation, rotation, scale) ==
    LET built == mat4FromTRS(CacheToFrame, CacheFromFrame, translation, rotation, scale)
    IN /\ ~cacheHit(translation, rotation, scale)
       /\ ~Threw(built)
       /\ heap' = [heap EXCEPT ![cached] = built]
       /\ hasCached' = TRUE
       /\ tx' = E(translation, 0) /\ ty' = E(translation, 1) /\ tz' = E(translation, 2)
       /\ qx' = E(rotation, 0) /\ qy' = E(rotation, 1) /\ qz' = E(rotation, 2)
       /\ qw' = E(rotation, 3)
       /\ sx' = E(scale, 0) /\ sy' = E(scale, 1) /\ sz' = E(scale, 2)
       /\ calls' = Append(calls, [input |-> translation \o rotation \o scale,
                                  out |-> cached])
       /\ UNCHANGED cached

\* return cached
TrsCacheReturnCached(translation, rotation, scale) ==
    /\ cacheHit(translation, rotation, scale)
    /\ calls' = Append(calls, [input |-> translation \o rotation \o scale, out |-> cached])
    /\ UNCHANGED <<hasCached, cached, tx, ty, tz, qx, qy, qz, qw, sx, sy, sz, heap>>

\* mat4FromTRS throws: the assignment to cached and everything after it is skipped
TrsCacheThrow(translation, rotation, scale) ==
    /\ ~cacheHit(translation, rotation, scale)
    /\ Threw(mat4FromTRS(CacheToFrame, CacheFromFrame, translation, rotation, scale))
    /\ calls' = Append(calls, [input |-> translation \o rotation \o scale, out |-> Thrown])
    /\ UNCHANGED <<hasCached, cached, tx, ty, tz, qx, qy, qz, qw, sx, sy, sz, heap>>

TrsCacheRebuildStaleSlot(translation, rotation, scale) ==
    LET built == mat4FromTRS(CacheToFrame, CacheFromFrame, translation, rotation, scale)
    IN /\ ~cacheHit(translation, rotation, scale)
       /\ ~Threw(built)
       /\ heap' = Append(heap, built)
       /\ cached' = Len(heap) + 1
       /\ hasCached' = TRUE
       /\ UNCHANGED <<tx, ty, tz, qx, qy, qz, qw, sx, sy, sz>>
       /\ calls' = Append(calls, [input |-> translation \o rotation \o scale,
                                  out |-> Len(heap) + 1])

\* cached = mat4FromTRS(...), hasCached = true, the 10 scalars stored, return cached
TrsCacheRebuild(translation, rotation, scale) ==
    LET built == mat4FromTRS(CacheToFrame, CacheFromFrame, translation, rotation, scale)
    IN /\ ~cacheHit(translation, rotation, scale)
       /\ ~Threw(built)
       /\ heap' = Append(heap, built)
       /\ cached' = Len(heap) + 1
       /\ hasCached' = TRUE
       /\ tx' = E(translation, 0) /\ ty' = E(translation, 1) /\ tz' = E(translation, 2)
       /\ qx' = E(rotation, 0) /\ qy' = E(rotation, 1) /\ qz' = E(rotation, 2)
       /\ qw' = E(rotation, 3)
       /\ sx' = E(scale, 0) /\ sy' = E(scale, 1) /\ sz' = E(scale, 2)
       /\ calls' = Append(calls, [input |-> translation \o rotation \o scale,
                                  out |-> Len(heap) + 1])

\* one call of the closure createTrsMat4Cache returned: a hit, a throw or a rebuild
TrsCacheCall ==
    \/ \E input \in TrsInputs :
        /\ Len(calls) < MaxCalls
        /\ TrsCacheReturnCached(translationOf(input), rotationOf(input), scaleOf(input))
        /\ UNCHANGED <<call, second>>
    \/ \E input \in TrsInputs :
        /\ Len(calls) < MaxCalls
        /\ TrsCacheThrow(translationOf(input), rotationOf(input), scaleOf(input))
        /\ UNCHANGED <<call, second>>
    \/ \E input \in TrsInputs :
        /\ Len(calls) < MaxCalls
        /\ TrsCacheRebuild(translationOf(input), rotationOf(input), scaleOf(input))
        /\ UNCHANGED <<call, second>>

NoCall == [op |-> "none"]

\* no second cache has been made
NotCreated == [created |-> FALSE]

Init == InitCache /\ call = NoCall /\ second = NotCreated

Next == TrsCacheCall

Spec == Init /\ [][Next]_vars

-----------------------------------------------------------------------------
(* Calls of the pure kernel functions: inputs drawn from bounded sets *)

Frames == {"world", "body", "local"}

Coords == -1..MaxCoord

\* points, directions and displacements with small integer coordinates
Vecs == {<<Num(a), Num(b), Num(c)>> : a, b, c \in Coords}

ZeroVec == <<Zero, Zero, Zero>>

ProbePoints == {ZeroVec, <<One, Zero, Zero>>, <<One, Num(-1), Num(2)>>}

Translations == {<<Num(2), Zero, Zero>>, <<Zero, Zero, Num(2)>>, <<Num(4), Num(-2), One>>}

QuatComponents == {Num(-1), Rat(-1, 2), Zero, Rat(1, 2), One}

\* the 24 unit quaternions with components in QuatComponents: the rotations by 0, 120
\* and 180 degrees that permute the axes, each under both signs
HurwitzUnits ==
    {q \in QuatComponents \X QuatComponents \X QuatComponents \X QuatComponents :
        quatNormSquared(q) = One}

\* unit quaternions of rotations by 2*atan(3/4) about z and x and by 2*atan(4/3) about y
PythagoreanUnits ==
    {<<Zero, Zero, Rat(3, 5), Rat(4, 5)>>,
     <<Rat(3, 5), Zero, Zero, Rat(4, 5)>>,
     <<Zero, Rat(4, 5), Zero, Rat(-3, 5)>>}

UnitQuats == HurwitzUnits \cup PythagoreanUnits

\* quaternions of norm 5/4 and 2, which the safe functions normalize
Quats == UnitQuats \cup {<<Zero, Zero, Rat(3, 4), One>>, <<Zero, Zero, Zero, Two>>}

ScalarSamples == {Zero, One, NaN}

IdentityValues ==
    <<One, Zero, Zero, Zero,
      Zero, One, Zero, Zero,
      Zero, Zero, One, Zero,
      Zero, Zero, Zero, One>>

\* rotation by 90 degrees about z, as 16 row-major values
RotZ90Values ==
    <<Zero, Num(-1), Zero, Zero,
      One, Zero, Zero, Zero,
      Zero, Zero, One, Zero,
      Zero, Zero, Zero, One>>

RotZ90 == mat4("world", "body", "none", RotZ90Values)

TranslateX2 == mat4FromTranslation("world", <<Num(2), Zero, Zero>>)

\* an affine matrix with shear
ShearValues ==
    <<One, Two, Zero, One,
      Zero, One, Num(3), Num(-1),
      One, Zero, One, Zero,
      Zero, Zero, Zero, One>>

\* 16 values whose bottom row is not [0,0,0,1]
HomogeneousValues == [IdentityValues EXCEPT ![16] = Two]

PerspectiveLikeValues ==
    <<One, Zero, Zero, Zero,
      Zero, One, Zero, Zero,
      Zero, Zero, Num(-2), Num(-3),
      Zero, Zero, Num(-1), Zero>>

Mats ==
    {mat4Identity("world", "none"),
     TranslateX2,
     RotZ90,
     mat4FromScale("world", "none", Two, One, Num(3)),
     mat4FromTRS("world", "body", <<One, Two, Num(3)>>,
                 <<Rat(1, 2), Rat(1, 2), Rat(1, 2), Rat(1, 2)>>, <<Two, One, One>>),
     mat4FromRigidTransform("world", "body", <<Zero, Zero, Rat(3, 5), Rat(4, 5)>>,
                            <<Num(4), Num(-2), One>>),
     mat4("world", "body", "m", ShearValues),
     mat4("world", "body", "m", HomogeneousValues),
     mat4("world", "body", "m", PerspectiveLikeValues)}

\* the values arrays handed to the mat4 constructor: of length 16, 15, 17 and 0
ValueArrays ==
    {IdentityValues, RotZ90Values, ShearValues, HomogeneousValues,
     [IdentityValues EXCEPT ![6] = NaN],
     SubSeq(IdentityValues, 1, 15), Append(IdentityValues, Zero), <<>>}

\* upper-left 3x3 blocks, row by row: rotations, a reflection, scales, a shear, rows of
\* unit length that are not orthogonal, and blocks with a non-finite entry
LinearBlocks ==
    {<<One, Zero, Zero, Zero, One, Zero, Zero, Zero, One>>,
     <<Zero, Num(-1), Zero, One, Zero, Zero, Zero, Zero, One>>,
     <<Rat(7, 25), Rat(-24, 25), Zero, Rat(24, 25), Rat(7, 25), Zero, Zero, Zero, One>>,
     <<One, Zero, Zero, Zero, One, Zero, Zero, Zero, Num(-1)>>,
     <<Zero, One, Zero, One, Zero, Zero, Zero, Zero, One>>,
     <<Two, Zero, Zero, Zero, Num(3), Zero, Zero, Zero, Num(4)>>,
     <<One, Two, Zero, Zero, One, Zero, Zero, Zero, One>>,
     <<One, Zero, Zero, Rat(3, 5), Rat(4, 5), Zero, Zero, Zero, One>>,
     <<One, Zero, Zero, Zero, NaN, Zero, Zero, Zero, One>>,
     <<One, Zero, Zero, Zero, One, PosInf, Zero, Zero, One>>}

BottomRows ==
    {<<Zero, Zero, Zero, One>>, <<Zero, Zero, Zero, Two>>, <<Zero, One, Zero, One>>,
     <<Zero, Zero, Zero, NaN>>}

\* the 16 row-major values with the given block, translation column and bottom row
MatrixOf(block, translation, bottom) ==
    <<block[1], block[2], block[3], translation[1],
      block[4], block[5], block[6], translation[2],
      block[7], block[8], block[9], translation[3]>> \o bottom

Idle == call = NoCall

\* rotateVec3ByQuat(composeQuats(outer, inner), v) and
\* rotateVec3ByQuat(outer, rotateVec3ByQuat(inner, v))
ComposeQuatsThenRotate ==
    /\ Idle
    /\ \E outer \in UnitQuats, inner \in UnitQuats, v \in ProbePoints :
        /\ call' = [op |-> "composeQuats", outer |-> outer, inner |-> inner, v |-> v,
                    composed |-> rotateVec3ByQuat(composeQuats(outer, inner), v),
                    sequential |-> rotateVec3ByQuat(outer, rotateVec3ByQuat(inner, v))]
        /\ UNCHANGED cacheVars

\* quat(toFrameTag, fromFrameTag, x, y, z, w)
QuatConstruct ==
    /\ Idle
    /\ \E to \in Frames, from \in Frames, x, y, z, w \in ScalarSamples :
        /\ call' = [op |-> "quat", to |-> to, from |-> from, xyzw |-> <<x, y, z, w>>,
                    out |-> quat(to, from, x, y, z, w)]
        /\ UNCHANGED cacheVars

\* quatFromRotationMatrix(mat4FromQuaternion(q)), and a vector rotated by q and by the
\* recovered quaternion
RotationMatrixRoundTrip ==
    /\ Idle
    /\ \E q \in UnitQuats, v \in Vecs :
        LET matrix == mat4FromQuaternion("local", "vehicle", "none", q)
            recovered == quatFromRotationMatrix("local", "vehicle", matrix)
        IN /\ call' = [op |-> "quatFromRotationMatrix", q |-> q, v |-> v,
                       recovered |-> recovered,
                       expected |-> rotateVec3ByQuat(q, v),
                       got |-> IF Threw(recovered) THEN recovered
                               ELSE rotateVec3ByQuat(recovered, v)]
           /\ UNCHANGED cacheVars

\* quatFromRotationMatrix(matrix) and quatFromRotationMatrixUnsafe(matrix)
RotationMatrixValidate ==
    /\ Idle
    /\ \E block \in LinearBlocks, t \in Translations :
        LET matrix == mat4Unsafe("a", "b", "m", MatrixOf(block, t, <<Zero, Zero, Zero, One>>))
        IN /\ call' = [op |-> "validateRotationMatrix", matrix |-> matrix,
                       out |-> quatFromRotationMatrix("a", "b", matrix),
                       unsafe |-> quatFromRotationMatrixUnsafe("a", "b", matrix)]
           /\ UNCHANGED cacheVars

NextQuat ==
    \/ ComposeQuatsThenRotate \/ QuatConstruct \/ RotationMatrixRoundTrip
    \/ RotationMatrixValidate

SpecQuat == Init /\ [][NextQuat]_vars

\* transformPoint3(p, composeMat4(outer, inner)) and
\* transformPoint3(transformPoint3(p, inner), outer)
ComposeMat4ThenTransform ==
    /\ Idle
    /\ \E outer \in Mats, inner \in Mats, p \in Vecs :
        /\ call' = [op |-> "composeMat4", outer |-> outer, inner |-> inner, p |-> p,
                    composed |-> transformPoint3(p, composeMat4(outer, inner)),
                    sequential |-> transformPoint3(transformPoint3(p, inner), outer)]
        /\ UNCHANGED cacheVars

\* mat4(toFrameTag, fromFrameTag, translationUnitTag, values)
Mat4Construct ==
    /\ Idle
    /\ \E to \in Frames, from \in Frames, values \in ValueArrays :
        /\ call' = [op |-> "mat4", to |-> to, from |-> from, values |-> values,
                    out |-> mat4(to, from, "m", values),
                    unsafe |-> mat4Unsafe(to, from, "m", values)]
        /\ UNCHANGED cacheVars

\* a point moved by a rigid matrix, and the moved point moved by invertRigidMat4 of it
RigidRoundTrip ==
    /\ Idle
    /\ \E q \in Quats, t \in Translations, p \in Vecs :
        LET pose == mat4FromRigidTransform("world", "local", q, t)
            inverse == invertRigidMat4(pose)
            moved == transformPoint3(p, pose)
        IN /\ call' = [op |-> "invertRigidMat4", q |-> q, t |-> t, p |-> p,
                       inverse |-> inverse, moved |-> moved,
                       back |-> IF Threw(inverse) THEN inverse
                                ELSE transformPoint3(moved, inverse)]
           /\ UNCHANGED cacheVars

\* a point under composeMat4(R, T) and under composeMat4(T, R), R a rotation and T a
\* translation
ComposeBothOrders ==
    /\ Idle
    /\ \E q \in UnitQuats, t \in Vecs, p \in ProbePoints :
        LET R == mat4FromQuaternion("world", "world", "none", q)
            T == mat4FromTranslation("world", t)
        IN /\ call' = [op |-> "composeBothOrders", q |-> q, t |-> t, p |-> p,
                       R |-> R,
                       rt |-> transformPoint3(p, composeMat4(R, T)),
                       tr |-> transformPoint3(p, composeMat4(T, R))]
           /\ UNCHANGED cacheVars

\* invertRigidMat4(value) and invertRigidMat4Unsafe(value)
InvertRigid ==
    /\ Idle
    /\ \E block \in LinearBlocks, t \in Translations, bottom \in BottomRows :
        LET value == mat4("world", "body", "m", MatrixOf(block, t, bottom))
        IN /\ call' = [op |-> "invertRigid", value |-> value,
                       out |-> invertRigidMat4(value),
                       unsafe |-> invertRigidMat4Unsafe(value)]
           /\ UNCHANGED cacheVars

\* transformPoint3 and transformDirection3 of the same numeric triple
TransformPointAndDirection ==
    /\ Idle
    /\ \E matrix \in Mats \cup {mat4FromTranslation("world", t) : t \in Translations},
          v \in Vecs :
        /\ call' = [op |-> "transform", matrix |-> matrix, v |-> v,
                    point |-> transformPoint3(v, matrix),
                    direction |-> transformDirection3(v, matrix)]
        /\ UNCHANGED cacheVars

\* the angles 0, pi, 2*atan(3/4), -2*atan(3/4), 2*atan(4/3) and NaN, as <<cosine, sine>>
Angles ==
    {<<One, Zero>>, <<Num(-1), Zero>>, <<Rat(7, 25), Rat(24, 25)>>,
     <<Rat(7, 25), Rat(-24, 25)>>, <<Rat(-7, 25), Rat(24, 25)>>, <<NaN, NaN>>}

\* near and far distances of a projection, among them NaN, near = far and an infinite far
DepthRanges ==
    {<<One, Num(10)>>, <<One, Num(3)>>, <<Rat(1, 2), Num(3)>>, <<Num(3), Num(10)>>,
     <<One, PosInf>>, <<Num(3), One>>, <<One, One>>, <<Zero, Num(3)>>, <<NaN, Num(3)>>}

\* projectPoint3 of a point on the near plane and of one on the far plane of
\* mat4Perspective(fieldOfViewYRadians, aspect, near, far)
ProjectNearAndFar ==
    /\ Idle
    /\ \E fieldOfViewYRadians \in Angles, aspect \in {Zero, One, Two},
          range \in DepthRanges, x \in Coords, y \in Coords :
        LET projection == mat4Perspective("clip", "view", fieldOfViewYRadians, aspect,
                                          range[1], range[2])
        IN /\ call' = [op |-> "projectNearAndFar", fov |-> fieldOfViewYRadians,
                       aspect |-> aspect, near |-> range[1], far |-> range[2],
                       x |-> x, y |-> y, projection |-> projection,
                       atNear |-> IF Threw(projection) THEN projection
                                  ELSE projectPoint3(<<Num(x), Num(y), Neg(range[1])>>,
                                                     projection),
                       atFar |-> IF Threw(projection) THEN projection
                                 ELSE projectPoint3(<<Num(x), Num(y), Neg(range[2])>>,
                                                    projection)]
           /\ UNCHANGED cacheVars

\* transformDirection3(value, mat4FromQuaternion(rotation)) and
\* rotateVec3ByQuat(rotation, value) on the same quaternion and vector
RotateByMatrixAndByQuat ==
    /\ Idle
    /\ \E rotation \in Quats, value \in Vecs :
        LET matrix == mat4FromQuaternion("body", "body", "none", rotation)
        IN /\ call' = [op |-> "rotateByMatrixAndByQuat",
                       rotation |-> rotation, value |-> value, matrix |-> matrix,
                       byMatrix |-> transformDirection3(value, matrix),
                       byQuat |-> rotateVec3ByQuat(rotation, value)]
           /\ UNCHANGED cacheVars

NextMat ==
    \/ ComposeMat4ThenTransform \/ Mat4Construct \/ RigidRoundTrip \/ ComposeBothOrders
    \/ InvertRigid \/ TransformPointAndDirection \/ ProjectNearAndFar
    \/ RotateByMatrixAndByQuat

SpecMat == Init /\ [][NextMat]_vars

-----------------------------------------------------------------------------
(* Calls of a validating function and of its unsafe twin on the same input *)

\* vectors with an integer length, a short one, and non-finite ones
VecSamples ==
    Vecs \cup {<<Num(3), Num(4), Zero>>, <<Num(2), Num(3), Num(6)>>,
               <<Rat(1, 1000), Zero, Zero>>, <<Zero, Rat(-3, 5), Rat(4, 5)>>,
               <<NaN, Zero, Zero>>, <<PosInf, Zero, One>>, <<NegInf, NaN, Zero>>}

NormalizeVec3Call ==
    /\ Idle
    /\ \E value \in VecSamples :
        /\ call' = [op |-> "normalizeVec3", value |-> value,
                    out |-> normalizeVec3(value),
                    unsafe |-> normalizeVec3Unsafe(value)]
        /\ UNCHANGED cacheVars

ProjectVec3Call ==
    /\ Idle
    /\ \E value \in ProbePoints, onto \in VecSamples :
        /\ call' = [op |-> "projectVec3", value |-> value, onto |-> onto,
                    out |-> projectVec3(value, onto),
                    unsafe |-> projectVec3Unsafe(value, onto)]
        /\ UNCHANGED cacheVars

ReflectVec3Call ==
    /\ Idle
    /\ \E incident \in ProbePoints, normal \in VecSamples :
        /\ call' = [op |-> "reflectVec3", incident |-> incident, normal |-> normal,
                    out |-> reflectVec3(incident, normal),
                    unsafe |-> reflectVec3Unsafe(incident, normal)]
        /\ UNCHANGED cacheVars

AngleBetweenVec3Call ==
    /\ Idle
    /\ \E left \in ProbePoints, right \in VecSamples :
        /\ call' = [op |-> "angleBetweenVec3", left |-> left, right |-> right,
                    out |-> angleBetweenVec3(left, right),
                    unsafe |-> angleBetweenVec3Unsafe(left, right)]
        /\ UNCHANGED cacheVars

ClampCall ==
    /\ Idle
    /\ \E value \in ScalarSamples \cup {Num(5), PosInf},
          minValue \in ScalarSamples \cup {Num(3)},
          maxValue \in ScalarSamples \cup {Num(3)} :
        /\ call' = [op |-> "clamp", value |-> value, minValue |-> minValue,
                    maxValue |-> maxValue,
                    out |-> clamp(value, minValue, maxValue),
                    unsafe |-> clampUnsafe(value, minValue, maxValue)]
        /\ UNCHANGED cacheVars

\* unit and non-unit quaternions, the zero quaternion and non-finite ones
QuatSamples ==
    Quats \cup {<<Zero, Zero, Zero, Zero>>, <<NaN, Zero, Zero, One>>,
                <<Zero, PosInf, Zero, One>>}

EulerOrders ==
    {<<"X", "Y", "Z">>, <<"X", "Z", "Y">>, <<"Y", "X", "Z">>,
     <<"Y", "Z", "X">>, <<"Z", "X", "Y">>, <<"Z", "Y", "X">>}

\* interpolation end points: unit quaternions at the angles 0, 60, 90, 180 degrees and
\* acos(4/5) from the identity and their negatives, two non-unit quaternions, the zero
\* quaternion and a NaN one
InterpolationSamples ==
    {<<Zero, Zero, Zero, One>>, <<Zero, Zero, Zero, Num(-1)>>,
     <<Zero, Zero, One, Zero>>, <<Zero, Zero, Rat(3, 5), Rat(4, 5)>>,
     <<Zero, Zero, Rat(-3, 5), Rat(-4, 5)>>, <<Rat(1, 2), Rat(1, 2), Rat(1, 2), Rat(1, 2)>>,
     <<Rat(-1, 2), Rat(-1, 2), Rat(-1, 2), Rat(-1, 2)>>,
     <<Zero, Zero, Zero, Two>>, <<Zero, Zero, Rat(3, 4), One>>,
     <<Zero, Zero, Zero, Zero>>, <<NaN, Zero, Zero, One>>}

\* interpolation parameters
Interpolants == {Zero, Rat(1, 2), One}

\* end points for the parameter 1/2 of quatSlerp: the angle between two of them is 0,
\* acos(7/25) or 180 degrees, whose halves have rational sines and cosines
HalfwaySamples ==
    {<<Zero, Zero, Zero, One>>, <<Zero, Zero, Zero, Num(-1)>>,
     <<Zero, Zero, Rat(24, 25), Rat(7, 25)>>, <<Zero, Zero, Rat(-24, 25), Rat(-7, 25)>>,
     <<Zero, Zero, Zero, Zero>>, <<NaN, Zero, Zero, One>>}

SlerpInputs ==
    (InterpolationSamples \X InterpolationSamples \X {Zero, One})
        \cup (HalfwaySamples \X HalfwaySamples \X {Rat(1, 2)})

\* rotation axes: unit, of length 5 and 7, zero and NaN
Axes ==
    {<<Zero, Zero, One>>, <<Num(3), Num(4), Zero>>, <<Num(2), Num(3), Num(6)>>,
     ZeroVec, <<NaN, Zero, Zero>>}

QuatNormalizeCall ==
    /\ Idle
    /\ \E value \in QuatSamples :
        /\ call' = [op |-> "quatNormalize", value |-> value,
                    out |-> quatNormalize(value),
                    unsafe |-> quatNormalizeUnsafe(value)]
        /\ UNCHANGED cacheVars

QuatInverseCall ==
    /\ Idle
    /\ \E value \in QuatSamples :
        /\ call' = [op |-> "quatInverse", value |-> value,
                    out |-> quatInverse(value),
                    unsafe |-> quatInverseUnsafe(value)]
        /\ UNCHANGED cacheVars

RotateVec3ByQuatCall ==
    /\ Idle
    /\ \E rotation \in QuatSamples, value \in ProbePoints :
        /\ call' = [op |-> "rotateVec3ByQuat", rotation |-> rotation, value |-> value,
                    out |-> rotateVec3ByQuat(rotation, value),
                    unsafe |-> rotateVec3ByQuatUnsafe(rotation, value)]
        /\ UNCHANGED cacheVars

QuatFromAxisAngleCall ==
    /\ Idle
    /\ \E axis \in Axes, angleRadians \in Angles :
        /\ call' = [op |-> "quatFromAxisAngle", axis |-> axis, angle |-> angleRadians,
                    out |-> quatFromAxisAngle("body", axis, angleRadians),
                    unsafe |-> quatFromAxisAngleUnsafe("body", axis, angleRadians)]
        /\ UNCHANGED cacheVars

QuatFromEulerCall ==
    /\ Idle
    /\ \E xRadians \in Angles, yRadians \in Angles, zRadians \in Angles,
          order \in EulerOrders :
        /\ call' = [op |-> "quatFromEuler", x |-> xRadians, y |-> yRadians,
                    z |-> zRadians, order |-> order,
                    out |-> quatFromEuler("body", xRadians, yRadians, zRadians, order),
                    unsafe |-> quatFromEulerUnsafe("body", xRadians, yRadians, zRadians,
                                                   order)]
        /\ UNCHANGED cacheVars

QuatNlerpCall ==
    /\ Idle
    /\ \E start \in InterpolationSamples, end \in InterpolationSamples, t \in Interpolants :
        /\ call' = [op |-> "quatNlerp", start |-> start, end |-> end, t |-> t,
                    out |-> quatNlerp(start, end, t),
                    unsafe |-> quatNlerpUnsafe(start, end, t)]
        /\ UNCHANGED cacheVars

QuatSlerpCall ==
    /\ Idle
    /\ \E input \in SlerpInputs :
        /\ call' = [op |-> "quatSlerp", start |-> input[1], end |-> input[2], t |-> input[3],
                    out |-> quatSlerp(input[1], input[2], input[3]),
                    unsafe |-> quatSlerpUnsafe(input[1], input[2], input[3])]
        /\ UNCHANGED cacheVars

\* scale triples, one of them with a zero
Scales == {<<One, One, One>>, <<Num(2), Num(3), Num(4)>>, <<Zero, One, Num(-1)>>}

\* projections: perspective-like, a perspective matrix of field of view 2*atan(3/4),
\* affine, uniform w = 2, w = x, w = 0 for every point, and a NaN bottom row
Projections ==
    {PerspectiveLikeValues,
     mat4PerspectiveUnsafe("clip", "view", <<Rat(7, 25), Rat(24, 25)>>, Two, One, Num(3)),
     IdentityValues, HomogeneousValues,
     MatrixOf(<<One, Zero, Zero, Zero, One, Zero, Zero, Zero, One>>, ZeroVec,
              <<One, Zero, Zero, Zero>>),
     MatrixOf(<<One, Zero, Zero, Zero, One, Zero, Zero, Zero, One>>,
              <<Num(2), Zero, Zero>>, <<Zero, Zero, Zero, Zero>>),
     MatrixOf(<<One, Zero, Zero, Zero, One, Zero, Zero, Zero, One>>, ZeroVec,
              <<Zero, Zero, NaN, One>>),
     MatrixOf(<<One, Zero, Zero, Zero, One, Zero, Zero, Zero, One>>, ZeroVec,
              <<Zero, PosInf, Zero, One>>)}

\* singular upper-left blocks: all zero, and of rank 2
SingularBlocks ==
    {<<Zero, Zero, Zero, Zero, Zero, Zero, Zero, Zero, Zero>>,
     <<One, Two, Num(3), Two, Num(4), Num(6), Zero, One, One>>}

Mat4FromQuaternionCall ==
    /\ Idle
    /\ \E rotation \in QuatSamples :
        /\ call' = [op |-> "mat4FromQuaternion", rotation |-> rotation,
                    out |-> mat4FromQuaternion("world", "body", "none", rotation),
                    unsafe |-> mat4FromQuaternionUnsafe("world", "body", "none", rotation)]
        /\ UNCHANGED cacheVars

Mat4FromTRSCall ==
    /\ Idle
    /\ \E translation \in Translations, rotation \in QuatSamples, scale \in Scales :
        /\ call' = [op |-> "mat4FromTRS", translation |-> translation,
                    rotation |-> rotation, scale |-> scale,
                    out |-> mat4FromTRS("world", "body", translation, rotation, scale),
                    unsafe |-> mat4FromTRSUnsafe("world", "body", translation, rotation,
                                                 scale)]
        /\ UNCHANGED cacheVars

Mat4PerspectiveCall ==
    /\ Idle
    /\ \E fieldOfViewYRadians \in Angles, aspect \in {Num(-1), Zero, Two, NaN},
          near \in {Zero, One, Num(3), NaN}, far \in {Zero, One, Num(3), PosInf} :
        /\ call' = [op |-> "mat4Perspective", fov |-> fieldOfViewYRadians,
                    aspect |-> aspect, near |-> near, far |-> far,
                    out |-> mat4Perspective("clip", "view", fieldOfViewYRadians, aspect,
                                            near, far),
                    unsafe |-> mat4PerspectiveUnsafe("clip", "view", fieldOfViewYRadians,
                                                     aspect, near, far)]
        /\ UNCHANGED cacheVars

ProjectPoint3Call ==
    /\ Idle
    /\ \E point \in VecSamples, projection \in Projections :
        /\ call' = [op |-> "projectPoint3", point |-> point, projection |-> projection,
                    out |-> projectPoint3(point, projection),
                    unsafe |-> projectPoint3Unsafe(point, projection)]
        /\ UNCHANGED cacheVars

\* targets off the axes, seen from the origin
LookAtTargets == {<<Num(2), Num(3), Num(3)>>, <<Num(3), Zero, One>>, <<Zero, Zero, Num(-1)>>}

\* up directions that are multiples of a target, the first two by 5 and by 7
UpDirections ==
    {<<Num(10), Num(15), Num(15)>>, <<Num(21), Zero, Num(7)>>, <<Zero, Zero, Num(-1)>>,
     <<Zero, One, Zero>>}

Mat4LookAtCall ==
    /\ Idle
    /\ \E point_eye_from \in ProbePoints,
          point_target_from \in ProbePoints \cup Translations \cup LookAtTargets,
          dir_up_from \in Axes \cup UpDirections :
        /\ call' = [op |-> "mat4LookAt", eye |-> point_eye_from,
                    target |-> point_target_from, up |-> dir_up_from,
                    out |-> mat4LookAt("view", "world", point_eye_from, point_target_from,
                                       dir_up_from),
                    unsafe |-> mat4LookAtUnsafe("view", "world", point_eye_from,
                                                point_target_from, dir_up_from)]
        /\ UNCHANGED cacheVars

NormalMatrixCall ==
    /\ Idle
    /\ \E block \in LinearBlocks \cup SingularBlocks, translation \in Translations :
        LET value == mat4("world", "body", "m",
                          MatrixOf(block, translation, <<Zero, Zero, Zero, One>>))
        IN /\ call' = [op |-> "normalMatrixFromMat4", value |-> value,
                       out |-> normalMatrixFromMat4(value),
                       unsafe |-> normalMatrixFromMat4Unsafe(value)]
           /\ UNCHANGED cacheVars

NextPairs ==
    \/ NormalizeVec3Call \/ ProjectVec3Call \/ ReflectVec3Call \/ AngleBetweenVec3Call
    \/ ClampCall
    \/ QuatNormalizeCall \/ QuatInverseCall \/ RotateVec3ByQuatCall
    \/ QuatFromAxisAngleCall \/ QuatFromEulerCall \/ QuatNlerpCall \/ QuatSlerpCall
    \/ RotationMatrixValidate
    \/ Mat4Construct \/ Mat4FromQuaternionCall \/ Mat4FromTRSCall \/ Mat4PerspectiveCall
    \/ ProjectPoint3Call \/ Mat4LookAtCall \/ InvertRigid \/ NormalMatrixCall

SpecPairs == Init /\ [][NextPairs]_vars

-----------------------------------------------------------------------------

(* Kernel calls on arrays held by reference: heap[i] is the array with identity i *)

\* arrays on the heap of one behaviour
MaxObjects == 4

\* the arrays a caller builds: two vectors, two quaternions and two matrices
ArgumentValues ==
    {<<One, Num(-1), Two>>, <<Two, One, One>>,
     <<Rat(1, 2), Rat(1, 2), Rat(1, 2), Rat(1, 2)>>, <<Zero, Zero, Zero, Zero>>,
     TranslateX2, RotZ90}

RefsOfLength(n) == {i \in DOMAIN heap : Len(heap[i]) = n}

\* a product written entry by entry into the left operand
multiplyRawOutputInPlace(left, right) == left

\* const output = new Array<number>(16) of multiplyRaw: a new array
multiplyRawOutput(left, right) == Len(heap) + 1

\* the heap after the array ref has been filled with values
Store(ref, values) ==
    IF ref = Len(heap) + 1 THEN Append(heap, values) ELSE [heap EXCEPT ![ref] = values]

\* an array literal handed to asPoint3, asQuaternion or asMat4
AllocateArgument ==
    /\ Len(heap) < MaxObjects
    /\ \E values \in ArgumentValues :
        /\ heap' = Append(heap, values)
        /\ call' = [op |-> "allocate", args |-> <<>>, before |-> heap,
                    out |-> Len(heap) + 1]
    /\ UNCHANGED <<hasCached, cached, tx, ty, tz, qx, qy, qz, qw, sx, sy, sz, calls, second>>

\* composeMat4(outer, inner) == asMat4(multiplyRaw(outer, inner))
ComposeMat4OnHeap ==
    /\ Len(heap) < MaxObjects
    /\ \E outer \in RefsOfLength(16), inner \in RefsOfLength(16) :
        /\ heap' = Store(multiplyRawOutput(outer, inner),
                         multiplyRaw(heap[outer], heap[inner]))
        /\ call' = [op |-> "composeMat4", args |-> <<outer, inner>>, before |-> heap,
                    out |-> multiplyRawOutput(outer, inner)]
    /\ UNCHANGED <<hasCached, cached, tx, ty, tz, qx, qy, qz, qw, sx, sy, sz, calls, second>>

\* transformPoint3(point, matrix) returns asPoint3 of three new numbers
TransformPoint3OnHeap ==
    /\ Len(heap) < MaxObjects
    /\ \E point \in RefsOfLength(3), matrix \in RefsOfLength(16) :
        /\ heap' = Append(heap, transformPoint3(heap[point], heap[matrix]))
        /\ call' = [op |-> "transformPoint3", args |-> <<point, matrix>>,
                    before |-> heap, out |-> Len(heap) + 1]
    /\ UNCHANGED <<hasCached, cached, tx, ty, tz, qx, qy, qz, qw, sx, sy, sz, calls, second>>

\* rotateVec3ByQuat(rotation, value): throws, or returns three new numbers
RotateVec3ByQuatOnHeap ==
    /\ Len(heap) < MaxObjects
    /\ \E rotation \in RefsOfLength(4), value \in RefsOfLength(3) :
        LET rotated == rotateVec3ByQuat(heap[rotation], heap[value])
        IN /\ heap' = IF Threw(rotated) THEN heap ELSE Append(heap, rotated)
           /\ call' = [op |-> "rotateVec3ByQuat", args |-> <<rotation, value>>,
                       before |-> heap,
                       out |-> IF Threw(rotated) THEN Thrown ELSE Len(heap) + 1]
    /\ UNCHANGED <<hasCached, cached, tx, ty, tz, qx, qy, qz, qw, sx, sy, sz, calls, second>>

\* one call of the cache closure on three arrays of the heap
TrsCacheOnHeap ==
    /\ Len(calls) < MaxCalls
    /\ \E translation \in RefsOfLength(3), rotation \in RefsOfLength(4),
          scale \in RefsOfLength(3) :
        /\ \/ TrsCacheReturnCached(heap[translation], heap[rotation], heap[scale])
           \/ TrsCacheThrow(heap[translation], heap[rotation], heap[scale])
           \/ /\ Len(heap) < MaxObjects
              /\ TrsCacheRebuild(heap[translation], heap[rotation], heap[scale])
        /\ call' = [op |-> "trsCache", args |-> <<translation, rotation, scale>>,
                    before |-> heap, out |-> calls'[Len(calls')].out]
    /\ UNCHANGED second

NextHeap ==
    \/ AllocateArgument \/ ComposeMat4OnHeap \/ TransformPoint3OnHeap
    \/ RotateVec3ByQuatOnHeap \/ TrsCacheOnHeap

SpecHeap == Init /\ [][NextHeap]_vars

-----------------------------------------------------------------------------

(* Claims about the TRS cache, checked under Spec *)

\* every scalar of a is === to the scalar of b in the same place
SameScalars(a, b) == \A k \in 1..10 : StrictEq(a[k], b[k])

Returned(i) == calls[i].out /= Thrown

\* C1: a call whose 10 scalars are each === to those of the immediately preceding call,
\* which returned a matrix, returns the very same matrix instance as that call.
C1_SameInputsSameInstance ==
    \A i \in 2..Len(calls) :
        (Returned(i - 1) /\ SameScalars(calls[i].input, calls[i - 1].input))
            => calls[i].out = calls[i - 1].out

C1_Witness ==
    \E i \in 2..Len(calls) :
        /\ Returned(i - 1)
        /\ SameScalars(calls[i].input, calls[i - 1].input)
        /\ calls[i].out = calls[i - 1].out

\* C2: a call with a scalar that differs (!==) from the preceding call's, both calls
\* returning a matrix, returns another object than the preceding call did; and two calls
\* that returned the same object had all 10 scalars === .
C2_ChangedScalarNewInstance ==
    /\ \A i \in 2..Len(calls) :
          (Returned(i - 1) /\ Returned(i) /\ ~SameScalars(calls[i].input, calls[i - 1].input))
              => calls[i].out /= calls[i - 1].out
    /\ \A i, j \in 1..Len(calls) :
          (i < j /\ Returned(j) /\ calls[i].out = calls[j].out)
              => SameScalars(calls[i].input, calls[j].input)

\* exactly one scalar differs, here the last one (scale z), and a new object came back
C2_Witness ==
    \E i \in 2..Len(calls) :
        /\ Returned(i - 1) /\ Returned(i)
        /\ \A k \in 1..9 : StrictEq(calls[i].input[k], calls[i - 1].input[k])
        /\ ~StrictEq(calls[i].input[10], calls[i - 1].input[10])
        /\ calls[i].out /= calls[i - 1].out

\* the calls so far alternate between two input sets that differ in at least one scalar
Alternating ==
    /\ Len(calls) >= 2
    /\ ~SameScalars(calls[1].input, calls[2].input)
    /\ \A i \in 3..Len(calls) : calls[i].input = calls[i - 2].input

\* mat4FromTRS accepts the input: its rotation is not of near-zero norm
Accepted(input) == ~quatNormalizeThrows(rotationOf(input))

NoInstanceReturnedTwice ==
    \A i, j \in 1..Len(calls) : (i < j /\ Returned(j)) => calls[i].out /= calls[j].out

-----------------------------------------------------------------------------
(* Claims about matrix composition and construction, checked under SpecMat *)

\* the bottom row of a matrix is [0, 0, 0, 1]
AffineBottomRow(matrix) ==
    /\ E(matrix, 12) = Zero /\ E(matrix, 13) = Zero
    /\ E(matrix, 14) = Zero /\ E(matrix, 15) = One

\* R = RotZ90 and T = TranslateX2 send (1,0,0) to (0,3,0) under composeMat4(R, T) and to
\* (2,1,0) under composeMat4(T, R)
ComposeExample ==
    (call.op = "composeMat4" /\ call.p = <<One, Zero, Zero>>) =>
        /\ (call.outer = RotZ90 /\ call.inner = TranslateX2)
               => call.composed = <<Zero, Num(3), Zero>>
        /\ (call.outer = TranslateX2 /\ call.inner = RotZ90)
               => call.composed = <<Two, One, Zero>>

\* C4 as claimed: for all matrices outer and inner and every point p, transforming p by
\* composeMat4(outer, inner) gives the point that transforming p by inner and then by
\* outer gives; and the example of R, T and (1,0,0) comes out as stated.
C4_InnerAppliedFirst_Original ==
    /\ call.op = "composeMat4" => call.composed = call.sequential
    /\ ComposeExample

\* C4, amended: the same, for every inner matrix whose bottom row is [0, 0, 0, 1].
C4_InnerAppliedFirst ==
    /\ (call.op = "composeMat4" /\ AffineBottomRow(call.inner))
           => call.composed = call.sequential
    /\ ComposeExample

\* the example's first half: the translation is applied first, then the rotation
C4_Witness ==
    /\ call.op = "composeMat4"
    /\ call.outer = RotZ90 /\ call.inner = TranslateX2 /\ call.p = <<One, Zero, Zero>>
    /\ call.composed = <<Zero, Num(3), Zero>>
    /\ call.sequential = <<Zero, Num(3), Zero>>

\* C6 as claimed: whenever toFrameTag and fromFrameTag are the same token, mat4 throws the
\* distinct-frames error, even when exactly 16 values are given.
C6_Mat4RejectsEqualFrames ==
    (call.op = "mat4" /\ call.to = call.from) => call.out = Throw(DistinctFramesMessage)

\* mat4 given equal frame tokens and 16 values returns the matrix
C6_Witness ==
    /\ call.op = "mat4"
    /\ call.to = "world" /\ call.from = "world"
    /\ call.values = IdentityValues
    /\ call.out = IdentityValues

\* C8: for every rigid matrix M built from a rotation and a translation and every point
\* p, invertRigidMat4(M) returns a matrix, and p transformed by M and then by that matrix
\* is within 1e-10 of p in each component.
C8_RigidRoundTrip ==
    call.op = "invertRigidMat4" =>
        /\ ~Threw(call.inverse)
        /\ \A i \in 1..3 : isApproximately(call.back[i], call.p[i], 10)

\* a rotation that is not the identity and a translation move the point away and the
\* inverse moves it back
C8_Witness ==
    /\ call.op = "invertRigidMat4"
    /\ call.q = <<Zero, Zero, Rat(3, 4), One>>
    /\ call.t = <<Num(4), Num(-2), One>>
    /\ call.moved /= call.p
    /\ call.back = call.p

\* R is a rotation other than the identity, T a translation other than zero
NonTrivialPair == call.R /= IdentityValues /\ call.t /= ZeroVec

\* C10 as claimed: for every rotation R that is not the identity and every non-zero
\* translation T, composeMat4(R, T) and composeMat4(T, R) send a point to different
\* results.
C10_OrderMatters_Original ==
    (call.op = "composeBothOrders" /\ NonTrivialPair) => call.rt /= call.tr

\* C10, amended: for such R and T the two results differ exactly when R moves the
\* translation vector, that is when T is not along the axis of R.
C10_OrderMatters ==
    (call.op = "composeBothOrders" /\ NonTrivialPair) =>
        (call.rt /= call.tr <=> transformDirection3(call.t, call.R) /= call.t)

\* a rotation about z and a translation along x: the two orders differ
C10_Witness ==
    /\ call.op = "composeBothOrders"
    /\ NonTrivialPair
    /\ call.q = <<Zero, Zero, Rat(3, 5), Rat(4, 5)>>
    /\ call.t = <<One, Zero, Zero>>
    /\ transformDirection3(call.t, call.R) /= call.t
    /\ call.rt /= call.tr

-----------------------------------------------------------------------------
(* Claims about quaternions, checked under SpecQuat *)

\* C5: for all unit quaternions outer and inner and every vector v,
\* rotateVec3ByQuat(composeQuats(outer, inner), v) equals
\* rotateVec3ByQuat(outer, rotateVec3ByQuat(inner, v)).
C5_ComposeQuatsInnerFirst ==
    call.op = "composeQuats" => call.composed = call.sequential

\* two rotations that do not commute, on a vector neither fixes
C5_Witness ==
    /\ call.op = "composeQuats"
    /\ call.outer = <<Rat(1, 2), Rat(1, 2), Rat(1, 2), Rat(1, 2)>>
    /\ call.inner = <<Zero, Zero, Rat(3, 5), Rat(4, 5)>>
    /\ call.v = <<One, Num(-1), Two>>
    /\ call.composed = call.sequential
    /\ call.composed /= rotateVec3ByQuat(composeQuats(call.inner, call.outer), call.v)

C9_RotationMatrixRoundTrip ==
    call.op = "quatFromRotationMatrix" =>
        /\ ~Threw(call.recovered)
        /\ \A i \in 1..3 : isNear(call.got[i], call.expected[i], 12)
        /\ \/ call.recovered = call.q
           \/ call.recovered = [i \in 1..4 |-> Neg(call.q[i])]

\* the rotation by 120 degrees about (1,1,1) comes back as its inverse: x goes to y under
\* q and to z under the recovered quaternion
C9_Witness ==
    /\ call.op = "quatFromRotationMatrix"
    /\ call.q = <<Rat(1, 2), Rat(1, 2), Rat(1, 2), Rat(1, 2)>>
    /\ call.v = <<One, Zero, Zero>>
    /\ call.expected = <<Zero, One, Zero>>
    /\ call.got = <<Zero, Zero, One>>

-----------------------------------------------------------------------------
(* Claims about validation in the matrix functions, checked under SpecMat *)

\* the upper-left 3x3 block passes the rotation-basis check of quatFromRotationMatrix
ValidRotationBlock(value) ==
    assertValidRotationBasis(E(value, 0), E(value, 4), E(value, 8),
                             E(value, 1), E(value, 5), E(value, 9),
                             E(value, 2), E(value, 6), E(value, 10)) = ""

\* the bottom row is [0, 0, 0, 1] within 1e-10
RigidBottomRow(value) ==
    /\ isApproximately(E(value, 12), Zero, 10) /\ isApproximately(E(value, 13), Zero, 10)
    /\ isApproximately(E(value, 14), Zero, 10) /\ isApproximately(E(value, 15), One, 10)

\* C11 as claimed: invertRigidMat4 throws for every matrix whose upper-left 3x3 block fails
\* the rotation-basis check (non-finite entry, length, orthogonality, determinant) or
\* whose bottom row is not [0,0,0,1] within tolerance; it returns an inverse only for
\* rigid input.
C11_InvertRejectsNonRigid ==
    call.op = "invertRigid" =>
        (~Threw(call.out) => (ValidRotationBlock(call.value) /\ RigidBottomRow(call.value)))

\* the reflection diag(1, 1, -1), of determinant -1, is inverted without an error
C11_Witness ==
    /\ call.op = "invertRigid"
    /\ call.value = MatrixOf(<<One, Zero, Zero, Zero, One, Zero, Zero, Zero, Num(-1)>>,
                             <<Num(2), Zero, Zero>>, <<Zero, Zero, Zero, One>>)
    /\ ~ValidRotationBlock(call.value)
    /\ ~Threw(call.out)
    /\ call.out = invertRigidMat4Unsafe(call.value)

-----------------------------------------------------------------------------
(* Claims about validation in the quaternion functions, checked under SpecQuat *)

\* column j of the upper-left 3x3 block of a row-major matrix
Column(matrix, j) == <<E(matrix, j), E(matrix, 4 + j), E(matrix, 8 + j)>>

Dot(a, b) == Add3(Mul(a[1], b[1]), Mul(a[2], b[2]), Mul(a[3], b[3]))

\* a . (b x c), the determinant of the block with columns a, b, c
Triple(a, b, c) ==
    Add3(Mul(a[1], Sub(Mul(b[2], c[3]), Mul(b[3], c[2]))),
         Mul(a[2], Sub(Mul(b[3], c[1]), Mul(b[1], c[3]))),
         Mul(a[3], Sub(Mul(b[1], c[2]), Mul(b[2], c[1]))))

\* within 1e-8 of the target
Within8(a, target) == LeqPow10(AbsNum(Sub(a, target)), 8)

\* finite entries, columns of squared length 1, pairwise orthogonal, determinant 1
RightHandedOrthonormal(matrix) ==
    LET c0 == Column(matrix, 0)  c1 == Column(matrix, 1)  c2 == Column(matrix, 2)
    IN /\ \A j \in 0..2 : \A k \in 1..3 : IsFinite(Column(matrix, j)[k])
       /\ Within8(Dot(c0, c0), One) /\ Within8(Dot(c1, c1), One) /\ Within8(Dot(c2, c2), One)
       /\ Within8(Dot(c0, c1), Zero) /\ Within8(Dot(c0, c2), Zero) /\ Within8(Dot(c1, c2), Zero)
       /\ Within8(Triple(c0, c1, c2), One)

-----------------------------------------------------------------------------
(* Claims about validating functions and their unsafe twins, checked under SpecPairs *)

\* the Euclidean length of a triple
LengthOf(v) == MathHypot(v[1], v[2], v[3])

PairCall == call.op /= "none"

C14_UnsafeNeverThrows ==
    PairCall => ~Threw(call.unsafe)

\* the zero quaternion: quatInverse throws and quatInverseUnsafe returns four NaN
C14_Witness ==
    /\ call.op = "quatInverse"
    /\ Threw(call.out)
    /\ call.unsafe = <<NaN, NaN, NaN, NaN>>

-----------------------------------------------------------------------------
(* Claims about transforming points and directions, checked under SpecMat *)

\* row i (0, 1, 2) of the upper-left 3x3 block of a matrix, applied to a triple
LinearRow(matrix, i, v) ==
    Add3(Mul(matrix[4 * i + 1], v[1]), Mul(matrix[4 * i + 2], v[2]),
         Mul(matrix[4 * i + 3], v[3]))

LinearPart(matrix, v) ==
    <<LinearRow(matrix, 0, v), LinearRow(matrix, 1, v), LinearRow(matrix, 2, v)>>

\* the fourth column of the first three rows
TranslationPart(matrix) == <<matrix[4], matrix[8], matrix[12]>>

\* the identity with a translation column
PureTranslation(matrix) ==
    matrix = [IdentityValues EXCEPT ![4] = matrix[4], ![8] = matrix[8], ![12] = matrix[12]]

\* C15: transformPoint3 applies the linear block and adds the translation,
\* transformDirection3 applies only the linear block; under a pure-translation matrix
\* the point moves by the translation and the direction comes back unchanged.
C15_PointTranslatedDirectionNot ==
    call.op = "transform" =>
        /\ call.direction = LinearPart(call.matrix, call.v)
        /\ \A k \in 1..3 :
              call.point[k] = Add(LinearPart(call.matrix, call.v)[k],
                                  TranslationPart(call.matrix)[k])
        /\ PureTranslation(call.matrix) =>
              /\ call.direction = call.v
              /\ \A k \in 1..3 :
                    call.point[k] = Add(call.v[k], TranslationPart(call.matrix)[k])

\* a triple under the translation by (4, -2, 1)
C15_Witness ==
    /\ call.op = "transform"
    /\ call.matrix = mat4FromTranslation("world", <<Num(4), Num(-2), One>>)
    /\ call.v = <<One, Num(-1), One>>
    /\ call.point = <<Num(5), Num(-3), Num(2)>>
    /\ call.direction = <<One, Num(-1), One>>

-----------------------------------------------------------------------------
(* Claims about quaternion interpolation and Euler angles, checked under SpecPairs *)

\* |actual - expected| <= 1e-7, the default tolerance of the tests' assertAlmostEquals
AlmostEquals(actual, expected) == LeqPow10(AbsNum(Sub(actual, expected)), 7)

\* component by component, as assertQuatAlmostEquals compares
QuatAlmostEquals(actual, expected) ==
    /\ ~Threw(actual)
    /\ \A k \in 1..4 : AlmostEquals(actual[k], expected[k])

Negated(q) == <<Neg(q[1]), Neg(q[2]), Neg(q[3]), Neg(q[4])>>

Dot4(a, b) == Add4(Mul(a[1], b[1]), Mul(a[2], b[2]), Mul(a[3], b[3]), Mul(a[4], b[4]))

UnitQuaternion(q) == Dot4(q, q) = One

AxisRotation(axis, angle) ==
    LET half == AngleTimes(angle, Rat(1, 2))
    IN CASE axis = "X" -> <<half[2], Zero, Zero, half[1]>>
         [] axis = "Y" -> <<Zero, half[2], Zero, half[1]>>
         [] axis = "Z" -> <<Zero, Zero, half[2], half[1]>>

\* the angle that a call of quatFromEuler gives to an axis
AngleAbout(axis) ==
    CASE axis = "X" -> call.x [] axis = "Y" -> call.y [] axis = "Z" -> call.z

\* q[order[k]] of the call, k = 1, 2, 3
EulerFactor(k) == AxisRotation(call.order[k], AngleAbout(call.order[k]))

\* composeQuats(q[order[2]], composeQuats(q[order[1]], q[order[0]])) of the call
EulerComposition ==
    composeQuats(EulerFactor(3), composeQuats(EulerFactor(2), EulerFactor(1)))

Normalized(q) ==
    <<Div(q[1], Sqrt(Dot4(q, q))), Div(q[2], Sqrt(Dot4(q, q))),
      Div(q[3], Sqrt(Dot4(q, q))), Div(q[4], Sqrt(Dot4(q, q)))>>

EulerProbe == <<One, Num(-1), Num(2)>>

\* the value is the normalized composition, and it rotates a vector about order[0]
\* first and about order[2] last
EulerComposedInOrder ==
    /\ call.out = Normalized(EulerComposition)
    /\ rotateVec3ByQuat(call.out, EulerProbe) =
          rotateVec3ByQuat(EulerFactor(3),
              rotateVec3ByQuat(EulerFactor(2), rotateVec3ByQuat(EulerFactor(1), EulerProbe)))

FiniteAngles == ~IsNaN(call.x[1]) /\ ~IsNaN(call.y[1]) /\ ~IsNaN(call.z[1])

NonZeroAngles == \A a \in {call.x, call.y, call.z} : a /= <<One, Zero>>

\* at most one of the three angles is pi
AtMostOneHalfTurn ==
    Cardinality({axis \in {"X", "Y", "Z"} : AngleAbout(axis) = <<Num(-1), Zero>>}) <= 1

\* every other order gives another quaternion for the angles of the call
OtherOrdersDiffer ==
    \A other \in EulerOrders \ {call.order} :
        quatFromEuler("body", call.x, call.y, call.z, other) /= call.out

-----------------------------------------------------------------------------
(* Claims about matrix construction and projection, checked under SpecPairs *)

\* p scaled component by component, rotated by the quaternion r, then moved by t
ScaleRotateTranslate(t, r, s, p) ==
    LET rotated == rotateVec3ByQuat(r, <<Mul(s[1], p[1]), Mul(s[2], p[2]), Mul(s[3], p[3])>>)
    IN <<Add(rotated[1], t[1]), Add(rotated[2], t[2]), Add(rotated[3], t[3])>>

\* composeMat4(translation(t), composeMat4(rotation(r), scale(s)))
TranslationRotationScale(t, r, s) ==
    composeMat4(mat4FromTranslation("world", t),
                composeMat4(mat4FromQuaternion("world", "body", "none", r),
                            mat4FromScale("body", "none", s[1], s[2], s[3])))

\* C18: for a unit rotation r, transforming p by mat4FromTRS(t, r, s) equals scaling p
\* by s, then rotating by r, then adding t, and mat4FromTRS(t, r, s) equals
\* composeMat4(translation(t), composeMat4(rotation(r), scale(s))).
C18_TrsIsTranslateRotateScale ==
    (call.op = "mat4FromTRS" /\ UnitQuaternion(call.rotation)) =>
        /\ ~Threw(call.out)
        /\ \A p \in Vecs :
              transformPoint3(p, call.out) =
                  ScaleRotateTranslate(call.translation, call.rotation, call.scale, p)
        /\ call.out = TranslationRotationScale(call.translation, call.rotation, call.scale)

\* (1, 0, 0) scaled by (2, 3, 4), turned from x to y, moved by (4, -2, 1)
C18_Witness ==
    /\ call.op = "mat4FromTRS"
    /\ call.translation = <<Num(4), Num(-2), One>>
    /\ call.rotation = <<Rat(1, 2), Rat(1, 2), Rat(1, 2), Rat(1, 2)>>
    /\ call.scale = <<Num(2), Num(3), Num(4)>>
    /\ transformPoint3(<<One, Zero, Zero>>, call.out) = <<Num(4), Zero, One>>

\* row i (0..3) of a projection applied to the point (p, 1)
HomogeneousRow(projection, i, p) ==
    Add4(Mul(projection[4 * i + 1], p[1]), Mul(projection[4 * i + 2], p[2]),
         Mul(projection[4 * i + 3], p[3]), projection[4 * i + 4])

\* C20: projectPoint3 throws exactly when the homogeneous w, the bottom row applied to
\* the point, is exactly 0; for every other w it returns the transformed x, y and z
\* each divided by w.
C20_ProjectPoint3Guard ==
    call.op = "projectPoint3" =>
        IF StrictEq(HomogeneousRow(call.projection, 3, call.point), Zero)
        THEN Threw(call.out) /\ call.out = Throw("Perspective divide is undefined for w = 0")
        ELSE ~Threw(call.out) /\
             \A i \in 0..2 :
                call.out[i + 1] = Div(HomogeneousRow(call.projection, i, call.point),
                                      HomogeneousRow(call.projection, 3, call.point))

\* the origin of view space under a perspective matrix: w = -z = 0
C20_Witness ==
    /\ call.op = "projectPoint3"
    /\ call.projection = mat4PerspectiveUnsafe("clip", "view", <<Rat(7, 25), Rat(24, 25)>>,
                                               Two, One, Num(3))
    /\ call.point = ZeroVec
    /\ Threw(call.out)

-----------------------------------------------------------------------------
(* Claim about the depth range of a perspective projection, checked under SpecMat *)

\* the projection was accepted by mat4Perspective and both points were projected
ProjectedNearAndFar ==
    /\ call.op = "projectNearAndFar"
    /\ ~Threw(call.projection)
    /\ ~Threw(call.atNear)
    /\ ~Threw(call.atFar)

NearAndFarAtMinusOneAndOne ==
    /\ ~Threw(call.atNear) /\ E(call.atNear, 2) = Num(-1)
    /\ ~Threw(call.atFar) /\ E(call.atFar, 2) = One

\* C21 as stated: for every projection mat4Perspective accepts (0 < near < far), the
\* point at z = -near projects to NDC z = -1 and the point at z = -far to NDC z = +1
C21_NearFarToNdc_Original ==
    (call.op = "projectNearAndFar" /\ ~Threw(call.projection))
        => NearAndFarAtMinusOneAndOne

\* C21: for every projection mat4Perspective accepts with a finite far distance, the
\* point at z = -near projects to NDC z = -1 and the point at z = -far to NDC z = +1;
\* with an infinite far distance, which mat4Perspective accepts too, both are NaN
C21_NearFarToNdc ==
    (call.op = "projectNearAndFar" /\ ~Threw(call.projection))
        => IF IsFinite(call.far)
           THEN NearAndFarAtMinusOneAndOne
           ELSE /\ ~Threw(call.atNear) /\ IsNaN(E(call.atNear, 2))
                /\ ~Threw(call.atFar) /\ IsNaN(E(call.atFar, 2))

\* near = 1 and far = 10 with a field of view of 2*atan(3/4): z = -1 and z = -10
C21_Witness ==
    /\ ProjectedNearAndFar
    /\ call.near = One /\ call.far = Num(10)
    /\ call.fov = <<Rat(7, 25), Rat(24, 25)>>
    /\ call.x = 1
    /\ E(call.atNear, 2) = Num(-1)
    /\ E(call.atFar, 2) = One

-----------------------------------------------------------------------------
(* Claim about the validation of mat4LookAt, checked under SpecPairs *)

\* target - eye and its cross product with up, exactly
ExactForward(eye, target) ==
    <<Sub(target[1], eye[1]), Sub(target[2], eye[2]), Sub(target[3], eye[3])>>

ExactCross(left, right) ==
    <<Sub(Mul(left[2], right[3]), Mul(left[3], right[2])),
      Sub(Mul(left[3], right[1]), Mul(left[1], right[3])),
      Sub(Mul(left[1], right[2]), Mul(left[2], right[1]))>>

IsZeroVector(v) == v = ZeroVec

UpParallelToForward ==
    IsZeroVector(ExactCross(ExactForward(call.eye, call.target), call.up))

\* C22: mat4LookAt throws when eye equals target, else when up is the zero vector, else
\* when up is parallel to the forward direction (cross(forward, up) is zero), each with
\* its own message, and returns a matrix for every other input
C22_LookAtValidation ==
    call.op = "mat4LookAt"
        => IF IsZeroVector(ExactForward(call.eye, call.target))
           THEN Threw(call.out)
                /\ call.out = Throw("LookAt requires eye and target to be distinct")
           ELSE IF IsZeroVector(call.up)
           THEN Threw(call.out)
                /\ call.out = Throw("LookAt requires a non-zero up direction")
           ELSE IF UpParallelToForward
           THEN Threw(call.out)
                /\ call.out = Throw("LookAt up direction cannot be parallel to forward")
           ELSE ~Threw(call.out)

\* eye (0,0,0), target (2,3,3), up (10,15,15) = 5 * forward: a matrix is returned
C22_Witness ==
    /\ call.op = "mat4LookAt"
    /\ call.eye = ZeroVec
    /\ call.target = <<Num(2), Num(3), Num(3)>>
    /\ call.up = <<Num(10), Num(15), Num(15)>>
    /\ UpParallelToForward
    /\ ~Threw(call.out)

\* what mat4LookAt does: the three checks in order, the third on the cross product of
\* the normalized vectors as computed in floating point
LookAtChecksInOrder ==
    call.op = "mat4LookAt"
        => IF IsZeroVector(ExactForward(call.eye, call.target))
           THEN Threw(call.out)
                /\ call.out = Throw("LookAt requires eye and target to be distinct")
           ELSE IF IsZeroVector(call.up)
           THEN Threw(call.out)
                /\ call.out = Throw("LookAt requires a non-zero up direction")
           ELSE IF IsZeroVector(lookAtRight(call.eye, call.target, call.up))
           THEN Threw(call.out)
                /\ call.out = Throw("LookAt up direction cannot be parallel to forward")
           ELSE ~Threw(call.out) /\ Len(call.out) = 16

-----------------------------------------------------------------------------
(* Claim about the length check of the mat4 constructor, checked under SpecPairs *)

-----------------------------------------------------------------------------
(* Claim about the validation of mat4Perspective, checked under SpecPairs *)

\* 0 < fov < pi, aspect > 0 and 0 < near < far, the field of view being an angle of
\* (-pi, pi] held as <<cosine, sine>>
ValidProjectionParams ==
    /\ Gt(MathSin(call.fov), Zero)
    /\ Gt(call.aspect, Zero)
    /\ Gt(call.near, Zero) /\ Lt(call.near, call.far)

ProjectionParamsMessages ==
    {"fieldOfViewYRadians must be in (0, PI)", "aspect must be > 0",
     "near and far must satisfy 0 < near < far"}

\* C24: mat4Perspective throws one of its three parameter errors exactly when the
\* parameters violate 0 < fov < pi, aspect > 0 or 0 < near < far, and otherwise
\* returns the 16 entries of mat4PerspectiveUnsafe
C24_PerspectiveValidated ==
    call.op = "mat4Perspective"
        => IF ValidProjectionParams
           THEN ~Threw(call.out) /\ Len(call.out) = 16
           ELSE Threw(call.out)
                /\ call.out \in {Throw(message) : message \in ProjectionParamsMessages}

\* near = far = 3 with a valid field of view and aspect: rejected
C24_Witness ==
    /\ call.op = "mat4Perspective"
    /\ call.fov = <<Rat(7, 25), Rat(24, 25)>>
    /\ call.aspect = Two
    /\ call.near = Num(3) /\ call.far = Num(3)
    /\ Threw(call.out)
    /\ call.out = Throw("near and far must satisfy 0 < near < far")

-----------------------------------------------------------------------------
(* Claim about side effects on arguments, checked under SpecHeap *)

\* C25: after every kernel call every array that existed before the call, its arguments
\* among them, holds the values it held before the call; only the slot of the TRS
\* cache and newly made arrays differ
C25_ArgumentsKept ==
    call.op /= "none"
        => /\ Len(heap) >= Len(call.before)
           /\ \A i \in DOMAIN call.before : heap[i] = call.before[i]

\* composeMat4 of two arrays made by earlier calls: the product is a new array and the
\* operands are as they were
C25_Witness ==
    /\ call.op = "composeMat4"
    /\ call.args[1] /= call.args[2]
    /\ call.args[1] > 1 /\ call.args[2] > 1
    /\ call.out = Len(call.before) + 1
    /\ heap[call.out] = multiplyRaw(call.before[call.args[1]], call.before[call.args[2]])
    /\ heap[call.out] /= heap[call.args[1]]
    /\ heap[call.args[1]] = call.before[call.args[1]]

-----------------------------------------------------------------------------
(* Further claims about the TRS cache, checked under Spec *)

\* mat4FromTRS(to, from, t, r, s) of the inputs of call i
BuiltFor(i) ==
    mat4FromTRS(CacheToFrame, CacheFromFrame, translationOf(calls[i].input),
                rotationOf(calls[i].input), scaleOf(calls[i].input))

\* C26: every call on the cache throws exactly when mat4FromTRS throws on its inputs,
\* and otherwise returns a matrix whose 16 entries are those of mat4FromTRS of its
\* inputs, whatever calls came before
C26_CacheRefinesMat4FromTRS ==
    \A i \in 1..Len(calls) :
        IF Threw(BuiltFor(i)) THEN calls[i].out = Thrown
        ELSE /\ Returned(i)
             /\ \A k \in 1..16 : heap[calls[i].out][k] = BuiltFor(i)[k]

\* a rebuild, a call with another rotation and a hit on it: each returned the matrix of
\* its own inputs
C26_Witness ==
    /\ Len(calls) = 3
    /\ \A i \in 1..3 : Returned(i) /\ heap[calls[i].out] = BuiltFor(i)
    /\ rotationOf(calls[2].input) /= rotationOf(calls[1].input)
    /\ translationOf(calls[2].input) = translationOf(calls[1].input)
    /\ scaleOf(calls[2].input) = scaleOf(calls[1].input)
    /\ heap[calls[2].out] /= heap[calls[1].out]
    /\ calls[3].out = calls[2].out

\* C27: a call that throws leaves the cache as it was: a call that repeats the inputs of
\* the last call that returned a matrix, with only throwing calls in between, returns
\* the instance that call returned
C27_ThrowKeepsCache ==
    \A i, j \in 1..Len(calls) :
        (/\ i + 1 < j
         /\ Returned(i)
         /\ \A k \in (i + 1)..(j - 1) : ~Returned(k)
         /\ SameScalars(calls[j].input, calls[i].input))
            => calls[j].out = calls[i].out

\* a matrix returned, a throw on a zero rotation, and the first inputs again
C27_Witness ==
    /\ Len(calls) = 3
    /\ Returned(1) /\ ~Returned(2) /\ Returned(3)
    /\ rotationOf(calls[2].input) = <<Zero, Zero, Zero, Zero>>
    /\ SameScalars(calls[3].input, calls[1].input)
    /\ calls[3].out = calls[1].out

\* C28: no call on the cache changes a matrix that an earlier call returned: every
\* array of the heap keeps its entries at every step
C28_ReturnedMatrixKept ==
    [][\A i \in 1..Len(calls) :
           Returned(i) => heap'[calls[i].out] = heap[calls[i].out]]_vars

\* three calls with three different inputs: the matrix of the first call is still the
\* matrix of its inputs and differs from the two built after it
C28_Witness ==
    /\ Len(calls) = 3
    /\ \A i \in 1..3 : Returned(i)
    /\ calls[1].out /= calls[2].out /\ calls[2].out /= calls[3].out
    /\ calls[1].out /= calls[3].out
    /\ heap[calls[1].out] = BuiltFor(1)
    /\ heap[calls[1].out] /= heap[calls[2].out]
    /\ heap[calls[1].out] /= heap[calls[3].out]

-----------------------------------------------------------------------------

(* Two caches: createTrsMat4Cache called twice, each call making its own closure *)

\* calls made on the two caches together
MaxTwoCacheCalls == 4

\* BaseInput, BaseInput with another scale, and a zero rotation (mat4FromTRS throws)
TwoCacheInputs ==
    {BaseInput, [BaseInput EXCEPT ![10] = Two], [BaseInput EXCEPT ![7] = Zero]}

\* a second closure that reads the variables of the first closure
secondClosureShared ==
    [second EXCEPT !.hasCached = hasCached, !.cached = cached,
                   !.slot = <<tx, ty, tz, qx, qy, qz, qw, sx, sy, sz>>]

\* let cached, hasCached, tx .. sz of the second call of createTrsMat4Cache
secondClosure == second

\* createTrsMat4Cache(toFrameTag, fromFrameTag, translationUnitTag): the initial values
\* of the closure's variables; cached starts as a new identity array
CreateSecondCache ==
    /\ ~second.created
    /\ heap' = Append(heap, asMat4(<<One, Zero, Zero, Zero,
                                     Zero, One, Zero, Zero,
                                     Zero, Zero, One, Zero,
                                     Zero, Zero, Zero, One>>))
    /\ second' = [created |-> TRUE, hasCached |-> FALSE, cached |-> Len(heap) + 1,
                  slot |-> <<Zero, Zero, Zero, Zero, Zero, Zero, One, One, One, One>>,
                  calls |-> <<>>]
    /\ UNCHANGED <<hasCached, cached, tx, ty, tz, qx, qy, qz, qw, sx, sy, sz, calls, call>>

\* the condition of the second closure's if
secondCacheHit(input) ==
    /\ secondClosure.hasCached
    /\ \A k \in 1..10 : StrictEq(input[k], secondClosure.slot[k])

\* return cached
SecondCacheReturnCached(input) ==
    /\ secondCacheHit(input)
    /\ second' = [second EXCEPT
                      !.calls = Append(@, [input |-> input, out |-> secondClosure.cached])]
    /\ UNCHANGED heap

\* mat4FromTRS throws: nothing of the closure is assigned
SecondCacheThrow(input) ==
    /\ ~secondCacheHit(input)
    /\ Threw(mat4FromTRS(CacheToFrame, CacheFromFrame, translationOf(input),
                         rotationOf(input), scaleOf(input)))
    /\ second' = [second EXCEPT !.calls = Append(@, [input |-> input, out |-> Thrown])]
    /\ UNCHANGED heap

\* cached = mat4FromTRS(...), hasCached = true, the 10 scalars stored, return cached
SecondCacheRebuild(input) ==
    LET built == mat4FromTRS(CacheToFrame, CacheFromFrame, translationOf(input),
                             rotationOf(input), scaleOf(input))
    IN /\ ~secondCacheHit(input)
       /\ ~Threw(built)
       /\ heap' = Append(heap, built)
       /\ second' = [second EXCEPT
                         !.hasCached = TRUE, !.cached = Len(heap) + 1, !.slot = input,
                         !.calls = Append(@, [input |-> input, out |-> Len(heap) + 1])]

TwoCacheCallsLeft ==
    Len(calls) + (IF second.created THEN Len(second.calls) ELSE 0) < MaxTwoCacheCalls

\* one call of the second closure
SecondCacheCall ==
    \/ \E input \in TwoCacheInputs :
        /\ second.created /\ TwoCacheCallsLeft
        /\ SecondCacheReturnCached(input)
        /\ UNCHANGED <<hasCached, cached, tx, ty, tz, qx, qy, qz, qw, sx, sy, sz, calls, call>>
    \/ \E input \in TwoCacheInputs :
        /\ second.created /\ TwoCacheCallsLeft
        /\ SecondCacheThrow(input)
        /\ UNCHANGED <<hasCached, cached, tx, ty, tz, qx, qy, qz, qw, sx, sy, sz, calls, call>>
    \/ \E input \in TwoCacheInputs :
        /\ second.created /\ TwoCacheCallsLeft
        /\ SecondCacheRebuild(input)
        /\ UNCHANGED <<hasCached, cached, tx, ty, tz, qx, qy, qz, qw, sx, sy, sz, calls, call>>

\* one call of the first closure
FirstCacheCall ==
    \/ \E input \in TwoCacheInputs :
        /\ TwoCacheCallsLeft
        /\ TrsCacheReturnCached(translationOf(input), rotationOf(input), scaleOf(input))
        /\ UNCHANGED <<call, second>>
    \/ \E input \in TwoCacheInputs :
        /\ TwoCacheCallsLeft
        /\ TrsCacheThrow(translationOf(input), rotationOf(input), scaleOf(input))
        /\ UNCHANGED <<call, second>>
    \/ \E input \in TwoCacheInputs :
        /\ TwoCacheCallsLeft
        /\ TrsCacheRebuild(translationOf(input), rotationOf(input), scaleOf(input))
        /\ UNCHANGED <<call, second>>

NextTwo == CreateSecondCache \/ FirstCacheCall \/ SecondCacheCall

SpecTwo == Init /\ [][NextTwo]_vars

(* Claim about two caches, checked under SpecTwo *)

\* what the closure does on each of a sequence of inputs when no other cache exists,
\* from the source: a hit when all 10 scalars === the stored ones, else a throw when
\* the rotation cannot be normalised, else a rebuild that stores the scalars
RECURSIVE Alone(_, _)
Alone(inputs, stored) ==
    IF inputs = <<>> THEN <<>>
    ELSE LET input == Head(inputs)
             kind == IF stored /= <<>> /\ SameScalars(input, stored) THEN "hit"
                     ELSE IF quatNormalizeThrows(rotationOf(input)) THEN "throw"
                     ELSE "rebuild"
         IN <<kind>> \o Alone(Tail(inputs), IF kind = "rebuild" THEN input ELSE stored)

InputsOf(history) == [i \in 1..Len(history) |-> history[i].input]

\* what call i of a history did, read from the instances it and the calls before it gave
KindOf(history, i) ==
    IF history[i].out = Thrown THEN "throw"
    ELSE IF \E j \in 1..(i - 1) : history[j].out = history[i].out THEN "hit"
    ELSE "rebuild"

\* a hit gives the instance of the latest earlier call that returned one
HitsGiveLatest(history) ==
    \A i \in 1..Len(history) :
        KindOf(history, i) = "hit" =>
            \E j \in 1..(i - 1) :
                /\ history[j].out = history[i].out
                /\ \A k \in (j + 1)..(i - 1) : history[k].out = Thrown

AsIfAlone(history) ==
    /\ \A i \in 1..Len(history) : KindOf(history, i) = Alone(InputsOf(history), <<>>)[i]
    /\ HitsGiveLatest(history)
    /\ \A i \in 1..Len(history) :
           history[i].out /= Thrown =>
               heap[history[i].out] =
                   mat4FromTRS(CacheToFrame, CacheFromFrame, translationOf(history[i].input),
                               rotationOf(history[i].input), scaleOf(history[i].input))

\* C29: two caches made by separate calls of createTrsMat4Cache share no state: each
\* hits, throws and rebuilds as it would with the other absent, whatever the calls on
\* the other, and no matrix instance is returned by both
C29_CachesIndependent ==
    /\ AsIfAlone(calls)
    /\ second.created =>
           /\ AsIfAlone(second.calls)
           /\ \A i \in 1..Len(calls), j \in 1..Len(second.calls) :
                  calls[i].out /= Thrown => calls[i].out /= second.calls[j].out

\* both caches called twice with the same inputs: each rebuilt once and hit once, and
\* the two instances are different arrays with equal entries
C29_Witness ==
    /\ second.created
    /\ Len(calls) = 2 /\ Len(second.calls) = 2
    /\ \A i \in 1..2 : calls[i].input = BaseInput /\ second.calls[i].input = BaseInput
    /\ calls[1].out /= Thrown /\ calls[2].out = calls[1].out
    /\ second.calls[1].out /= Thrown /\ second.calls[2].out = second.calls[1].out
    /\ calls[1].out /= second.calls[1].out
    /\ heap[calls[1].out] = heap[second.calls[1].out]

-----------------------------------------------------------------------------

(* Claim about the matrix and quaternion forms of a rotation, checked under SpecMat *)

RotatedBothWays == call.op = "rotateByMatrixAndByQuat"

\* C30: for a unit quaternion q and a vector v, transformDirection3 of v by
\* mat4FromQuaternion(q) has the same three components as rotateVec3ByQuat(q, v)
C30_MatrixAgreesWithQuat ==
    (RotatedBothWays /\ quatNormSquared(call.rotation) = One) =>
        \A k \in 1..3 : call.byMatrix[k] = call.byQuat[k]

\* the rotation by 2*atan(3/4) about z takes (1, 0, 0) to (7/25, 24/25, 0) both ways;
\* its inverse would take it to (7/25, -24/25, 0)
C30_Witness ==
    /\ RotatedBothWays
    /\ call.rotation = <<Zero, Zero, Rat(3, 5), Rat(4, 5)>>
    /\ call.value = <<One, Zero, Zero>>
    /\ call.byMatrix = <<Rat(7, 25), Rat(24, 25), Zero>>
    /\ call.byQuat = <<Rat(7, 25), Rat(24, 25), Zero>>

====
